---------------------------- MODULE Spec2Model ----------------------------
(***************************************************************************)
(* A model of the flame-graph renderer of inferno                          *)
(* (src/flamegraph/mod.rs): from_lines and the merger it calls.            *)
(*                                                                         *)
(* A run is one call of from_lines.  The folded-stack lines and the        *)
(* options are fixed when the call starts; the actions are the stages of   *)
(* the call: the four pre-merge branches (each ending in merge::frames),   *)
(* the "ignored lines" warning, the empty-input error SVG, the pruning     *)
(* with the SVG header, and the frame loop.                                *)
(*                                                                         *)
(* Text is modelled as a sequence of byte values, so that the byte-wise    *)
(* order of Rust's str (used by sort_unstable and by the sort check) is    *)
(* the lexicographic order of the sequences.                               *)
(***************************************************************************)
EXTENDS Integers, Sequences, FiniteSets, TLC

(***************************************************************************)
(* Bytes.  ' ' = 32, '#' = 35, '-' = 45, '.' = 46, '0'..'9' = 48..57,      *)
(* ';' = 59, 'a'.. = 97..                                                  *)
(***************************************************************************)
SP == 32
HASH == 35
SEMI == 59

IsDigit(c) == c >= 48 /\ c <= 57

\* The value of a run of ASCII digits (str::parse::<usize>).
RECURSIVE DigitsValue(_)
DigitsValue(s) ==
    IF s = <<>> THEN 0
    ELSE 10 * DigitsValue(SubSeq(s, 1, Len(s) - 1)) + (s[Len(s)] - 48)

AllDigits(s) == \A i \in 1..Len(s) : IsDigit(s[i])

\* Rust's &s[from..to] with 0-based byte offsets.
Slice(s, from, to) == SubSeq(s, from + 1, to)

\* str::trim, for the one whitespace byte of the alphabet.
RECURSIVE TrimStart(_)
TrimStart(s) ==
    IF s # <<>> /\ s[1] = SP THEN TrimStart(Tail(s)) ELSE s

RECURSIVE TrimEnd(_)
TrimEnd(s) ==
    IF s # <<>> /\ s[Len(s)] = SP THEN TrimEnd(SubSeq(s, 1, Len(s) - 1)) ELSE s

Trim(s) == TrimEnd(TrimStart(s))

StartsWith(s, p) == Len(s) >= Len(p) /\ SubSeq(s, 1, Len(p)) = p

\* str's Ord: byte-wise lexicographic order; a proper prefix is smaller.
RECURSIVE StrLess(_, _)
StrLess(s, t) ==
    IF t = <<>> THEN FALSE
    ELSE IF s = <<>> THEN TRUE
    ELSE IF s[1] # t[1] THEN s[1] < t[1]
    ELSE StrLess(Tail(s), Tail(t))

StrLeq(s, t) == s = t \/ StrLess(s, t)

\* str::rfind(c): the 0-based offset of the last c in s, or -1.
RECURSIVE RFind(_, _)
RFind(s, c) ==
    IF s = <<>> THEN -1
    ELSE IF s[Len(s)] = c THEN Len(s) - 1
    ELSE RFind(SubSeq(s, 1, Len(s) - 1), c)

\* str::find(c): the 0-based offset of the first c in s, or -1.
RECURSIVE Find(_, _)
Find(s, c) ==
    IF s = <<>> THEN -1
    ELSE IF s[1] = c THEN 0
    ELSE LET r == Find(Tail(s), c) IN IF r < 0 THEN -1 ELSE r + 1

\* str::split(';'): the segments between the separators, at least one.
RECURSIVE Split(_, _)
Split(s, c) ==
    LET i == Find(s, c)
    IN  IF i < 0 THEN <<s>>
        ELSE <<Slice(s, 0, i)>> \o Split(Slice(s, i + 1, Len(s)), c)

RECURSIVE Join(_, _)
Join(parts, c) ==
    IF Len(parts) = 0 THEN <<>>
    ELSE IF Len(parts) = 1 THEN parts[1]
    ELSE parts[1] \o <<c>> \o Join(Tail(parts), c)

RECURSIVE Rev(_)
Rev(q) == IF q = <<>> THEN <<>> ELSE Rev(Tail(q)) \o <<q[1]>>

\* <[&str]>::sort_unstable: the lines in non-decreasing byte order.
RECURSIVE InsertSorted(_, _)
InsertSorted(x, q) ==
    IF q = <<>> THEN <<x>>
    ELSE IF StrLeq(x, q[1]) THEN <<x>> \o q
    ELSE <<q[1]>> \o InsertSorted(x, Tail(q))

RECURSIVE SortLines(_)
SortLines(q) ==
    IF q = <<>> THEN <<>> ELSE InsertSorted(q[1], SortLines(Tail(q)))

IsSortedLines(q) == \A i \in 1..(Len(q) - 1) : StrLeq(q[i], q[i + 1])

\* tidy_lines: every line trimmed; empty lines and "# " comments dropped.
TidyKeep(line) == ~(line = <<>> \/ StartsWith(line, <<HASH, SP>>))

RECURSIVE TidyLines(_)
TidyLines(lines) ==
    IF lines = <<>> THEN <<>>
    ELSE LET line == Trim(lines[1])
         IN  (IF TidyKeep(line) THEN <<line>> ELSE <<>>) \o TidyLines(Tail(lines))

(***************************************************************************)
(* Counts.  A sample count is a record: b and a are the before and after   *)
(* counts of a two-count line (b is 0 and a is the count of a one-count    *)
(* line), v is the count in the visual metric that lays the graph out.     *)
(***************************************************************************)
WidthSources == {"Before", "After", "Difference", "Common", "AllSamples", "Max"}

\* apply with the arms of Before and After exchanged.
ApplyOtherColumn(fws, before, after) ==
    CASE fws = "Before" -> after
      [] fws = "After" -> before
      [] fws = "Difference" -> IF before > after THEN before - after ELSE after - before
      [] fws = "Common" -> IF before < after THEN before ELSE after
      [] fws = "AllSamples" -> before + after
      [] fws = "Max" -> IF before > after THEN before ELSE after

\* FrameWidthSource::apply
Apply(fws, before, after) ==
    CASE fws = "Before" -> before
      [] fws = "After" -> after
      [] fws = "Difference" -> IF before > after THEN before - after ELSE after - before
      [] fws = "Common" -> IF before < after THEN before ELSE after
      [] fws = "AllSamples" -> before + after
      [] fws = "Max" -> IF before > after THEN before ELSE after

ZeroCount == [b |-> 0, a |-> 0, v |-> 0]

AddCount(x, y) == [b |-> x.b + y.b, a |-> x.a + y.a, v |-> x.v + y.v]

(***************************************************************************)
(* The line parser (merge::rfind_samples, parse_from_line).  Counts are    *)
(* located from the right: the last space-delimited token must be d+ or    *)
(* d+.d+ (the fraction is stripped).                                       *)
(***************************************************************************)
NoSamples == [found |-> FALSE, idx |-> 0, n |-> 0]

\* The count token `samples`, which starts at offset samplesi and holds its
\* first '.' at offset doti (none: -1), as a sample count.
SamplesToken(samples, samplesi, doti) ==
    IF doti < 0
    THEN IF samples # <<>> /\ AllDigits(samples)
         THEN [found |-> TRUE, idx |-> samplesi, n |-> DigitsValue(samples)]
         ELSE NoSamples
    ELSE IF /\ doti > 0
            /\ doti + 1 < Len(samples)
            /\ AllDigits(Slice(samples, 0, doti))
            /\ AllDigits(Slice(samples, doti + 1, Len(samples)))
         THEN [found |-> TRUE, idx |-> samplesi,
               n |-> DigitsValue(Slice(samples, 0, doti))]
         ELSE NoSamples

SamplesAfter(line, sp) ==
    IF sp < 0 THEN NoSamples
    ELSE SamplesToken(Slice(line, sp + 1, Len(line)), sp + 1,
                      Find(Slice(line, sp + 1, Len(line)), 46))

\* merge::rfind_samples: the offset of the trailing count and its value.
RfindSamples(line) == SamplesAfter(line, RFind(line, SP))

NoParse == [ok |-> FALSE, stack |-> <<>>, count |-> ZeroCount]

ParsedSingle(stack, s1) ==
    IF ~s1.found \/ stack = <<>> THEN NoParse
    ELSE [ok |-> TRUE, stack |-> stack, count |-> [b |-> 0, a |-> s1.n, v |-> s1.n]]

SingleAt(line, s1) == ParsedSingle(TrimEnd(Slice(line, 0, s1.idx)), s1)

\* StackSampleCount::<usize>::parse_from_line: one trailing count.
ParseSingle(line) == SingleAt(line, RfindSamples(line))

ParsedDiff(stack, s1, s2, fws) ==
    IF ~s1.found \/ stack = <<>> THEN NoParse
    ELSE [ok |-> TRUE, stack |-> stack,
          count |-> [b |-> s1.n, a |-> s2.n, v |-> Apply(fws, s1.n, s2.n)]]

DiffBefore(rest, s1, s2, fws) ==
    ParsedDiff(TrimEnd(Slice(rest, 0, s1.idx)), s1, s2, fws)

DiffAfter(line, s2, fws) ==
    IF ~s2.found THEN NoParse
    ELSE DiffBefore(TrimEnd(Slice(line, 0, s2.idx)),
                    RfindSamples(TrimEnd(Slice(line, 0, s2.idx))), s2, fws)

\* StackSampleCount::<DiffCount>::parse_from_line: the last two tokens are
\* the before and the after count; the visual count is the width source
\* applied to this line's pair.
ParseDiff(line, fws) == DiffAfter(line, RfindSamples(line), fws)

ParseFromLine(line, is_diff, fws) ==
    IF is_diff THEN ParseDiff(line, fws) ELSE ParseSingle(line)

(***************************************************************************)
(* The merger (merge::frames).  It folds the ordered lines into timed      *)
(* frames, keeping a stack of open frames.  open[i] is the open frame of   *)
(* depth i - 1; open[1] is the synthetic root, whose name is empty.  The   *)
(* fields id and parent are history fields: id numbers the frames in the   *)
(* order they are opened, parent is the id of the frame below (0 for the   *)
(* root), first and last are the positions, among the lines given to the   *)
(* merger, of the line that opened the frame and of the last line read     *)
(* before it was closed.                                                   *)
(***************************************************************************)
MergeStart ==
    [err |-> FALSE, prev |-> <<>>, open |-> <<>>, frames |-> <<>>,
     time |-> 0, total |-> <<>>, ignored |-> 0, next_id |-> 1, k |-> 0]

Min(x, y) == IF x < y THEN x ELSE y

\* The number of leading frames two stacks have in common.
RECURSIVE CommonPrefix(_, _)
CommonPrefix(open, this) ==
    IF open = <<>> \/ this = <<>> \/ open[1].function # this[1] THEN 0
    ELSE 1 + CommonPrefix(Tail(open), Tail(this))

\* The frame open[i], closed at end_time.
TimedFrame(open, i, end_time, last) ==
    [function |-> open[i].function, depth |-> i - 1,
     start_time |-> open[i].start_time, end_time |-> end_time,
     self_count |-> open[i].self_count, total_count |-> open[i].total_count,
     id |-> open[i].id, parent |-> open[i].parent,
     first |-> open[i].first, last |-> last]

\* Close every open frame deeper than `shared`, the deepest first.
CloseFrames(open, shared, end_time, last) ==
    [j \in 1..(Len(open) - shared) |->
        TimedFrame(open, Len(open) + 1 - j, end_time, last)]

\* OpenFrames with every new frame started at the origin instead of the
\* cursor.
OpenFramesAtOrigin(open, shared, this, time, next_id, first) ==
    [i \in 1..Len(this) |->
        IF i <= shared THEN open[i]
        ELSE [function |-> this[i], start_time |-> 0,
              self_count |-> ZeroCount, total_count |-> ZeroCount,
              id |-> next_id + (i - shared - 1), first |-> first,
              parent |-> IF i = 1 THEN 0
                         ELSE IF i - 1 <= shared THEN open[i - 1].id
                         ELSE next_id + (i - shared - 2)]]

\* The open stack after the frames this[shared+1..] are opened at `time`.
OpenFrames(open, shared, this, time, next_id, first) ==
    [i \in 1..Len(this) |->
        IF i <= shared THEN open[i]
        ELSE [function |-> this[i], start_time |-> time,
              self_count |-> ZeroCount, total_count |-> ZeroCount,
              id |-> next_id + (i - shared - 1), first |-> first,
              parent |-> IF i = 1 THEN 0
                         ELSE IF i - 1 <= shared THEN open[i - 1].id
                         ELSE next_id + (i - shared - 2)]]

\* Attribute with the count taken as the self count of every frame on the
\* stack.
AttributeSelfToAll(open, count) ==
    [i \in 1..Len(open) |->
        [open[i] EXCEPT !.total_count = AddCount(@, count),
                        !.self_count = AddCount(@, count)]]

\* The line's count is the deepest frame's self count and part of the total
\* count of every frame on the stack.
Attribute(open, count) ==
    [i \in 1..Len(open) |->
        [open[i] EXCEPT !.total_count = AddCount(@, count),
                        !.self_count = IF i = Len(open) THEN AddCount(@, count) ELSE @]]

\* The frames deeper than `shared` are closed, the frames of `this` beyond
\* it are opened, the count is attributed and the cursor advances by the
\* count's visual value.
FlowAt(acc, this, shared, count) ==
    [acc EXCEPT
        !.frames = @ \o CloseFrames(acc.open, shared, acc.time, acc.k - 1),
        !.open = Attribute(OpenFrames(acc.open, shared, this, acc.time,
                                      acc.next_id, acc.k), count),
        !.next_id = @ + (Len(this) - shared),
        !.time = @ + count.v,
        !.total = IF @ = <<>> THEN <<count>> ELSE <<AddCount(@[1], count)>>]

\* In flame-chart mode the leaf of a line is never merged with the frame
\* the line before left open.
FlowThis(acc, this, common, count, flame) ==
    FlowAt(acc, this, IF flame THEN Min(common, Len(this) - 1) ELSE common, count)

\* flow: one parsed line; the synthetic root is put before its frames.
Flow(acc, stack, count, flame) ==
    FlowThis(acc, <<<<>>>> \o Split(stack, SEMI),
             CommonPrefix(acc.open, <<<<>>>> \o Split(stack, SEMI)), count, flame)

MergeParsed(acc, p, suppress_sort_check) ==
    IF ~p.ok THEN [acc EXCEPT !.ignored = @ + 1]
    ELSE Flow(acc, p.stack, p.count, suppress_sort_check)

\* One line of the merger's loop: the sort check on the whole line, the
\* parse, the flow.
MergeLine(acc, line, suppress_sort_check, fws, is_diff) ==
    IF acc.err THEN acc
    ELSE IF ~suppress_sort_check /\ acc.prev # <<>> /\ StrLess(line, acc.prev[1])
    THEN [acc EXCEPT !.err = TRUE]
    ELSE MergeParsed([acc EXCEPT !.prev = <<line>>, !.k = @ + 1],
                     ParseFromLine(line, is_diff, fws), suppress_sort_check)

RECURSIVE MergeLines(_, _, _, _, _)
MergeLines(acc, lines, suppress_sort_check, fws, is_diff) ==
    IF lines = <<>> THEN acc
    ELSE MergeLines(MergeLine(acc, lines[1], suppress_sort_check, fws, is_diff),
                    Tail(lines), suppress_sort_check, fws, is_diff)

MergeEnd(acc) ==
    IF acc.err THEN [err |-> TRUE, frames |-> <<>>, total |-> <<>>, ignored |-> 0]
    ELSE [err |-> FALSE,
          frames |-> acc.frames \o CloseFrames(acc.open, 0, acc.time, acc.k),
          total |-> acc.total, ignored |-> acc.ignored]

\* A quotient n/d of two integers, d >= 0; d = 0 stands for a division by
\* zero.
Rat(n, d) == [n |-> n, d |-> d]

RatSub(p, q) == Rat(p.n * q.d - q.n * p.d, p.d * q.d)

RatNeg(p) == Rat(-p.n, p.d)

AbsInt(x) == IF x < 0 THEN -x ELSE x

Signum(x) == IF x < 0 THEN -1 ELSE IF x > 0 THEN 1 ELSE 0

\* DiffCount::delta: after - before.
Delta(count) == count.a - count.b

\* The numerator of x/Ta - y/Tb over the denominator Ta * Tb.
NormalizedNumerator(count, overall) == count.a * overall.b - count.b * overall.a

\* DiffCount::normalized_delta: x/Ta - y/Tb.
NormalizedDelta(count, overall) ==
    Rat(NormalizedNumerator(count, overall), overall.a * overall.b)

\* DiffCount::delta_pct_pt: 100 * (x/Ta - y/Tb).
DeltaPctPt(count, overall) ==
    Rat(100 * NormalizedNumerator(count, overall), overall.a * overall.b)

\* DiffCount::delta_pct_pt_assuming_both_datasets_have_the_same_number_of_samples:
\* 100 * ((x - y)/Ta).
DeltaPctPtAssumingTheSameNumberOfSamples(count, after) ==
    Rat(100 * Delta(count), after)

\* The largest of the numbers ns, 0 when there is none.
MaxOf(ns) ==
    IF ns = <<>> THEN 0
    ELSE CHOOSE x \in {ns[i] : i \in 1..Len(ns)} : \A i \in 1..Len(ns) : ns[i] <= x

\* The delta maxima over all the timed frames: of the raw deltas and of the
\* percent-point deltas, for the self and for the total counts.
DeltaMaxima(fs, overall) ==
    [max_abs_self_delta |->
        MaxOf([i \in 1..Len(fs) |-> AbsInt(Delta(fs[i].self_count))]),
     max_abs_total_delta |->
        MaxOf([i \in 1..Len(fs) |-> AbsInt(Delta(fs[i].total_count))]),
     max_abs_self_delta_pct_pt |->
        Rat(100 * MaxOf([i \in 1..Len(fs) |->
                            AbsInt(NormalizedNumerator(fs[i].self_count, overall))]),
            overall.a * overall.b),
     max_abs_total_delta_pct_pt |->
        Rat(100 * MaxOf([i \in 1..Len(fs) |->
                            AbsInt(NormalizedNumerator(fs[i].total_count, overall))]),
            overall.a * overall.b)]

\* The merger's result with its delta maxima: None unless the counts are
\* two-count and there is an overall total.
WithDeltaMax(m, is_diff) ==
    [err |-> m.err, frames |-> m.frames, total |-> m.total, ignored |-> m.ignored,
     delta_max |-> IF is_diff /\ m.total # <<>>
                   THEN <<DeltaMaxima(m.frames, m.total[1])>> ELSE <<>>]

\* merge::frames: the timed frames, the overall total (<<>> for None), the
\* ignored tally, the delta maxima; err when the sort check fails.
Frames(lines, suppress_sort_check, fws, is_diff) ==
    WithDeltaMax(MergeEnd(MergeLines(MergeStart, lines, suppress_sort_check, fws, is_diff)),
                 is_diff)

(***************************************************************************)
(* from_lines.                                                             *)
(***************************************************************************)
VARIABLES
    readers,   \* the texts of the readers given to from_readers
    opt,       \* the Options of the call
    lines,     \* the lines given to from_lines
    pc,        \* the stage of the call
    handed,    \* the lines handed to merge::frames
    frames,    \* the timed frames
    total,     \* overall_total_sample_count: <<>> for None, <<count>> for Some
    delta_max, \* the delta maxima: <<>> for None, <<maxima>> for Some
    ignored,   \* the ignored tally
    depthmax,  \* the largest depth that survived the pruning
    log,       \* the messages logged, in order
    sink,      \* what was written to the writer, in order
    result     \* "Running", "Ok" or the error returned

vars == <<readers, opt, lines, pc, handed, frames, total, delta_max, ignored, depthmax, log, sink, result>>

\* The lines the inputs are drawn from:
\*   "a 1"      "a;b 2 1"      "a;c 0 3"      "b 1 0"
\*   "# c"      "x"            " a;b 1"
Corpus ==
    { <<97, 32, 49>>,
      <<97, 59, 98, 32, 50, 32, 49>>,
      <<97, 59, 99, 32, 48, 32, 51>>,
      <<98, 32, 49, 32, 48>>,
      <<35, 32, 99>>,
      <<120>>,
      <<32, 97, 59, 98, 32, 49>> }

MaxLines == 2

RECURSIVE SeqsUpTo(_, _)
SeqsUpTo(S, n) ==
    IF n = 0 THEN {<<>>}
    ELSE LET shorter == SeqsUpTo(S, n - 1)
         IN  shorter \cup {Append(q, x) : q \in {r \in shorter : Len(r) = n - 1}, x \in S}

\* min_width is kept in hundredths of a percent: 1 is the default 0.01.
MinWidths == {1, 4000}

\* CountType = usize lays out by the count itself: the width source is
\* only read by the DiffCount parser.  hash is set, as the tests of the
\* repository set it, so that colours are a function of the names.
OptionsSet ==
    { o \in [reverse_stack_order : BOOLEAN, flame_chart : BOOLEAN, no_sort : BOOLEAN,
             is_diff : BOOLEAN, frame_width_source : WidthSources,
             min_width : MinWidths, base : {{}},
             negate_differentials : {FALSE}, normalize : {FALSE},
             include_children : {FALSE}, detailed_tooltips : {FALSE},
     hash : {TRUE}, deterministic : {FALSE}] :
        o.is_diff \/ o.frame_width_source = "After" }

Init ==
    /\ readers = <<>>
    /\ opt \in OptionsSet
    /\ lines \in SeqsUpTo(Corpus, MaxLines)
    /\ pc = "start"
    /\ handed = <<>>
    /\ frames = <<>>
    /\ total = <<>>
    /\ delta_max = <<>>
    /\ ignored = 0
    /\ depthmax = 0
    /\ log = <<>>
    /\ sink = <<>>
    /\ result = "Running"

\* ReversedAt without .rev(): the frames stay in their order.
ReversedAtInOrder(line, samples_idx) ==
    Trim(Join(Split(Trim(Slice(line, 0, samples_idx)), SEMI), SEMI)
         \o <<SP>> \o Slice(line, samples_idx, Len(line)))

\* The reversed stack: the frames before samples_idx in reverse order, a
\* space, the rest of the line.
ReversedAt(line, samples_idx) ==
    Trim(Join(Rev(Split(Trim(Slice(line, 0, samples_idx)), SEMI)), SEMI)
         \o <<SP>> \o Slice(line, samples_idx, Len(line)))

\* SecondSamples without the second rfind_samples: a before count stays in
\* the stack that is reversed.
SecondSamplesSkipped(line, idx1, s2) == ReversedAt(line, idx1)

SecondSamples(line, idx1, s2) == ReversedAt(line, IF s2.found THEN s2.idx ELSE idx1)

FirstSamples(line, idx1) ==
    SecondSamples(line, idx1, RfindSamples(Slice(line, 0, idx1 - 1)))

ReverseAfter(line, s1) == FirstSamples(line, IF s1.found THEN s1.idx ELSE Len(line))

\* One line of the reverse_stack_order loop: the frames before the counts
\* are reversed, the counts are kept.
ReverseLine(line) == ReverseAfter(line, RfindSamples(line))

ReverseLines(ls) == [i \in 1..Len(ls) |-> ReverseLine(ls[i])]

MergedAs(ls, m) ==
    /\ handed' = ls
    /\ IF m.err
       THEN /\ pc' = "done"
            /\ result' = "ErrUnsorted"
            /\ UNCHANGED <<frames, total, delta_max, ignored>>
       ELSE /\ pc' = "merged"
            /\ result' = result
            /\ frames' = m.frames
            /\ total' = m.total
            /\ delta_max' = m.delta_max
            /\ ignored' = m.ignored

\* The end of every branch: merge::frames(...)? and the binding of its result.
Merged(ls, suppress_sort_check) ==
    MergedAs(ls, Frames(ls, suppress_sort_check, opt.frame_width_source, opt.is_diff))

\* The reversed lines without reversed.sort_unstable().
ReverseLinesUnsorted(ls) == ReverseLines(TidyLines(ls))

\* if opt.reverse_stack_order
ReverseLinesToMerge(ls) == SortLines(ReverseLines(TidyLines(ls)))

\* ReverseBranch with flame_chart tested first: when both options are set
\* the lines go to the merger as the flame-chart branch hands them.
ReverseBranchFlameChartFirst ==
    /\ pc = "start"
    /\ opt.reverse_stack_order
    /\ log' = IF opt.no_sort /\ ~opt.flame_chart
              THEN Append(log, "warn: no_sort is being ignored") ELSE log
    /\ IF opt.flame_chart
       THEN Merged(Rev(TidyLines(lines)), TRUE)
       ELSE Merged(ReverseLinesToMerge(lines), FALSE)
    /\ UNCHANGED <<readers, opt, lines, depthmax, sink>>

ReverseBranch ==
    /\ pc = "start"
    /\ opt.reverse_stack_order
    /\ log' = IF opt.no_sort THEN Append(log, "warn: no_sort is being ignored") ELSE log
    /\ Merged(ReverseLinesToMerge(lines), FALSE)
    /\ UNCHANGED <<readers, opt, lines, depthmax, sink>>

\* else if opt.flame_chart
FlameChartLinesToMerge(ls) == Rev(TidyLines(ls))

\* FlameChartBranch with the merger's no-merge flag left off.
FlameChartBranchMerging ==
    /\ pc = "start"
    /\ ~opt.reverse_stack_order
    /\ opt.flame_chart
    /\ Merged(FlameChartLinesToMerge(lines), FALSE)
    /\ UNCHANGED <<readers, opt, lines, depthmax, log, sink>>

FlameChartBranch ==
    /\ pc = "start"
    /\ ~opt.reverse_stack_order
    /\ opt.flame_chart
    /\ Merged(FlameChartLinesToMerge(lines), TRUE)
    /\ UNCHANGED <<readers, opt, lines, depthmax, log, sink>>

\* cursor.saturating_sub(1)
SaturatingSub1(cursor) == IF cursor = 0 THEN 0 ELSE cursor - 1

\* The loop over line.rsplit(';'): `symbols` are the segments still to
\* visit, the right-most first; the last segment of the line is visited
\* with its counts. The loop breaks at the first segment equal to a base
\* symbol, with the cursor at the start of that segment.
RECURSIVE BaseCursor(_, _, _)
BaseCursor(symbols, cursor, base) ==
    IF symbols = <<>> THEN cursor
    ELSE IF symbols[1] \in base THEN cursor - Len(symbols[1])
    ELSE BaseCursor(Tail(symbols), SaturatingSub1(cursor - Len(symbols[1])), base)

CursorOf(line, base) == BaseCursor(Rev(Split(line, SEMI)), Len(line), base)

\* filter_map: a line whose cursor is 0 is left out, another is cut to
\* &line[cursor..].
RECURSIVE BaseFilter(_, _)
BaseFilter(ls, base) ==
    IF ls = <<>> THEN <<>>
    ELSE IF CursorOf(ls[1], base) = 0 THEN BaseFilter(Tail(ls), base)
    ELSE <<Slice(ls[1], CursorOf(ls[1], base), Len(ls[1]))>> \o BaseFilter(Tail(ls), base)

\* if opt.base.is_empty() { lines } else { the filtered lines }
BaseLines(ls, base) == IF base = {} THEN ls ELSE BaseFilter(ls, base)

\* The no_sort branch with the base filter of the default branch applied.
NoSortLinesBaseFiltered(ls) == BaseLines(TidyLines(ls), opt.base)

\* The no_sort branch sorting its lines all the same.
NoSortLinesSorted(ls) == SortLines(TidyLines(ls))

\* else if opt.no_sort
NoSortLinesToMerge(ls) == TidyLines(ls)

\* NoSortBranch with the SVG header written before the lines are merged.
NoSortBranchHeaderFirst ==
    /\ pc = "start"
    /\ ~opt.reverse_stack_order
    /\ ~opt.flame_chart
    /\ opt.no_sort
    /\ sink' = sink \o << [tag |-> "header"] >>
    /\ Merged(NoSortLinesToMerge(lines), FALSE)
    /\ UNCHANGED <<readers, opt, lines, depthmax, log>>

NoSortBranch ==
    /\ pc = "start"
    /\ ~opt.reverse_stack_order
    /\ ~opt.flame_chart
    /\ opt.no_sort
    /\ Merged(NoSortLinesToMerge(lines), FALSE)
    /\ UNCHANGED <<readers, opt, lines, depthmax, log, sink>>

\* The default branch without lines.sort_unstable().
DefaultLinesUnsorted(ls) == BaseLines(TidyLines(ls), opt.base)

\* else: sort lines by default
DefaultLinesToMerge(ls) == SortLines(BaseLines(TidyLines(ls), opt.base))

DefaultBranch ==
    /\ pc = "start"
    /\ ~opt.reverse_stack_order
    /\ ~opt.flame_chart
    /\ ~opt.no_sort
    /\ Merged(DefaultLinesToMerge(lines), FALSE)
    /\ UNCHANGED <<readers, opt, lines, depthmax, log, sink>>

\* if ignored != 0 { warn!(...) }
ReportIgnored ==
    /\ pc = "merged"
    /\ log' = IF ignored # 0 THEN Append(log, "warn: ignored lines with invalid format")
              ELSE log
    /\ pc' = "checked"
    /\ UNCHANGED <<readers, opt, lines, handed, frames, total, delta_max, ignored, depthmax, sink, result>>

\* NoStackCounts with the early return taken before the error SVG is written.
NoStackCountsNoSvg ==
    /\ pc = "checked"
    /\ total = <<>>
    /\ log' = Append(log, "error: No stack counts found")
    /\ result' = "ErrInvalidData"
    /\ pc' = "done"
    /\ UNCHANGED <<readers, opt, lines, handed, frames, total, delta_max, ignored, depthmax, sink>>

\* if overall_total_sample_count.is_none(): the error SVG and Err(InvalidData)
NoStackCounts ==
    /\ pc = "checked"
    /\ total = <<>>
    /\ log' = Append(log, "error: No stack counts found")
    /\ sink' = sink \o << [tag |-> "header"],
                          [tag |-> "text: ERROR: No valid input provided to flamegraph"],
                          [tag |-> "/svg"] >>
    /\ result' = "ErrInvalidData"
    /\ pc' = "done"
    /\ UNCHANGED <<readers, opt, lines, handed, frames, total, delta_max, ignored, depthmax>>

\* The pruning test taken on the frame's own count instead of its width.
NarrowBySelf(frame, overall, min_width) ==
    10000 * frame.self_count.v < min_width * overall.v

\* TimedFrame::visual_width(total) < min_width: the frame's share of the
\* overall visual total, in percent, is below min_width.
Narrow(frame, overall, min_width) ==
    10000 * (frame.end_time - frame.start_time) < min_width * overall.v

\* frames.retain(...)
RECURSIVE Retain(_, _, _)
Retain(fs, overall, min_width) ==
    IF fs = <<>> THEN <<>>
    ELSE (IF Narrow(fs[1], overall, min_width) THEN <<>> ELSE <<fs[1]>>)
         \o Retain(Tail(fs), overall, min_width)

RECURSIVE MaxDepth(_)
MaxDepth(fs) ==
    IF fs = <<>> THEN 0
    ELSE LET m == MaxDepth(Tail(fs)) IN IF fs[1].depth > m THEN fs[1].depth ELSE m

\* Prune with total_samples taken from the after column of the overall
\* total.
PruneAfterColumn ==
    /\ pc = "checked"
    /\ total # <<>>
    /\ frames' = Retain(frames, total[1], opt.min_width)
    /\ depthmax' = MaxDepth(frames')
    /\ sink' = sink \o << [tag |-> "header"], [tag |-> "prelude"],
                          [tag |-> "frames", total_samples |-> total[1].a] >>
    /\ pc' = "draw"
    /\ UNCHANGED <<readers, opt, lines, handed, total, delta_max, ignored, log, result>>

\* The pruning, then the header, the prelude and the frames container.
Prune ==
    /\ pc = "checked"
    /\ total # <<>>
    /\ frames' = Retain(frames, total[1], opt.min_width)
    /\ depthmax' = MaxDepth(frames')
    /\ sink' = sink \o << [tag |-> "header"], [tag |-> "prelude"],
                          [tag |-> "frames", total_samples |-> total[1].v] >>
    /\ pc' = "draw"
    /\ UNCHANGED <<readers, opt, lines, handed, total, delta_max, ignored, log, result>>

\* get_pct, with opt.factor at its default of 1.
GetPct(s, s_max) == Rat(100 * s, s_max)

\* get_delta_pct_txt: the sign and the absolute value, which is written
\* to two decimals.
GetDeltaPctTxt(pct) ==
    [sign |-> IF pct.d = 0 THEN "" ELSE IF pct.n < 0 THEN "-" ELSE IF pct.n > 0 THEN "+" ELSE "",
     abs |-> Rat(AbsInt(pct.n), pct.d)]

IsTheAllFrame(frame) == frame.function = <<>> /\ frame.depth = 0

\* let delta = if opt.include_children { total_count } else { self_count }
DeltaCount(o, frame) ==
    IF o.include_children THEN frame.total_count ELSE frame.self_count

\* The tooltip's percent-point delta without the division by a total.
TooltipDeltaPctPtOfCounts(o, frame, overall) ==
    Rat(100 * Delta(DeltaCount(o, frame)), 1)

\* The tooltip's percent-point delta computed as if normalize were unset.
TooltipDeltaPctPtNotNormalized(o, frame, overall) ==
    DeltaPctPtAssumingTheSameNumberOfSamples(DeltaCount(o, frame), overall.a)

\* let mut delta_pct_pt = if opt.normalize { ... } else { ... }
TooltipDeltaPctPt(o, frame, overall) ==
    IF o.normalize THEN DeltaPctPt(DeltaCount(o, frame), overall)
    ELSE DeltaPctPtAssumingTheSameNumberOfSamples(DeltaCount(o, frame), overall.a)

\* self_pct_change and total_pct_change of the detailed tooltip.
PctChange(count, overall) ==
    RatSub(GetPct(count.a, overall.a), GetPct(count.b, overall.b))

DetailedTooltip(o) ==
    o.detailed_tooltips \/ o.frame_width_source \notin {"Before", "After"}

\* if opt.negate_differentials { delta_pct_pt = -delta_pct_pt; }
BriefDeltaPctPt(o, frame, overall) ==
    IF o.negate_differentials THEN RatNeg(TooltipDeltaPctPt(o, frame, overall))
    ELSE TooltipDeltaPctPt(o, frame, overall)

\* The tooltip of a frame with two-count data: the detailed one with its
\* Self and Total 'Change' lines, or the brief one, which shows the
\* percent-point delta for every frame but the all frame.
DiffTooltip(o, frame, overall) ==
    IF DetailedTooltip(o)
    THEN [kind |-> "detailed",
          self_change |-> GetDeltaPctTxt(PctChange(frame.self_count, overall)),
          total_change |-> GetDeltaPctTxt(PctChange(frame.total_count, overall))]
    ELSE IF IsTheAllFrame(frame) THEN [kind |-> "brief all"]
    ELSE [kind |-> "brief",
          delta_pct |-> GetDeltaPctTxt(BriefDeltaPctPt(o, frame, overall))]

Tooltip(o, frame, overall) ==
    IF o.is_diff THEN DiffTooltip(o, frame, overall) ELSE [kind |-> "single"]

\* f64 as isize: the quotient cut towards zero; a NaN is 0.
AsInteger(n, d) ==
    IF d = 0 THEN 0 ELSE IF n < 0 THEN -((-n) \div d) ELSE n \div d

\* (delta * 1e4) as isize
NormalizedColourDelta(o, frame, overall) ==
    AsInteger(10000 * NormalizedDelta(DeltaCount(o, frame), overall).n,
              NormalizedDelta(DeltaCount(o, frame), overall).d)

\* (delta_max * 1e4) as usize, delta_max being the percent-point maximum
\* over 100.
NormalizedColourDeltaMax(o, dmax) ==
    IF o.include_children
    THEN AsInteger(10000 * dmax.max_abs_total_delta_pct_pt.n,
                   100 * dmax.max_abs_total_delta_pct_pt.d)
    ELSE AsInteger(10000 * dmax.max_abs_self_delta_pct_pt.n,
                   100 * dmax.max_abs_self_delta_pct_pt.d)

\* let (mut delta, delta_max) = if opt.normalize { ... } else { ... }: the delta
ColourDelta(o, frame, overall) ==
    IF o.normalize THEN NormalizedColourDelta(o, frame, overall)
    ELSE Delta(DeltaCount(o, frame))

\* let (mut delta, delta_max) = if opt.normalize { ... } else { ... }: the maximum
ColourDeltaMax(o, dmax) ==
    IF o.normalize THEN NormalizedColourDeltaMax(o, dmax)
    ELSE IF o.include_children THEN dmax.max_abs_total_delta
    ELSE dmax.max_abs_self_delta

\* Negated with the delta left as it is.
NotNegated(o, delta) == delta

\* if opt.negate_differentials { delta = -delta; }
Negated(o, delta) == IF o.negate_differentials THEN -delta ELSE delta

\* Clamp because the 'all' frame can go over.
Clamped(delta, max) ==
    IF AbsInt(delta) > max THEN max * Signum(delta) ELSE delta

\* The values thread_rng may hand to a colour pick.
Rgbs == {0, 1}

\* color::color with the random source always consumed.
PalettePickByRng(o, function, rng) == [by |-> "rng", value |-> rng]

\* color::color(colors, hash, deterministic, name, &mut thread_rng): hash and
\* deterministic make the colour a function of the name, otherwise the
\* random source is consumed.
PalettePick(o, function, rng) ==
    IF o.hash \/ o.deterministic THEN [by |-> "name", name |-> function]
    ELSE [by |-> "rng", value |-> rng]

\* The frame's colour comes from color::color, the last else of the colour
\* chain.
UsesPalette(o, frame) ==
    /\ frame.function # <<45, 45>>
    /\ frame.function # <<45>>
    /\ ~o.is_diff

\* The colour of the rectangle, rng being what thread_rng hands out for it;
\* color_diffusion and the palette map are left at their defaults.
Colour(o, frame, overall, dmax, rng) ==
    IF frame.function = <<45, 45>> THEN [scale |-> "VDGREY"]
    ELSE IF frame.function = <<45>> THEN [scale |-> "DGREY"]
    ELSE IF o.is_diff
    THEN [scale |-> "diff",
          delta |-> Clamped(Negated(o, ColourDelta(o, frame, overall)),
                            ColourDeltaMax(o, dmax[1])),
          delta_max |-> ColourDeltaMax(o, dmax[1])]
    ELSE [scale |-> "palette", rgb |-> PalettePick(o, frame.function, rng)]

\* The rectangle of one frame of the frame loop, with its tooltip and its
\* colour.
RectOf(o, frame, overall, dmax, rng) ==
    [tag |-> "rect", function |-> frame.function, depth |-> frame.depth,
     x1_samples |-> frame.start_time, x2_samples |-> frame.end_time, id |-> frame.id,
     tooltip |-> Tooltip(o, frame, overall),
     colour |-> Colour(o, frame, overall, dmax, rng)]

Rect(frame, rng) == RectOf(opt, frame, total[1], delta_max, rng)

\* What thread_rng may hand out over the frame loop: one value for each
\* frame whose colour is asked of color::color.
RngDraws ==
    IF opt.is_diff THEN {[i \in 1..Len(frames) |-> 0]}
    ELSE {d \in [1..Len(frames) -> Rgbs] :
            \A i \in 1..Len(frames) : ~UsesPalette(opt, frames[i]) => d[i] = 0}

\* for frame in frames { ... }, the closing tags, Ok(())
DrawFrames ==
    /\ pc = "draw"
    /\ \E d \in RngDraws :
         sink' = sink \o [i \in 1..Len(frames) |-> Rect(frames[i], d[i])]
                      \o << [tag |-> "/svg"], [tag |-> "/svg"] >>
    /\ result' = "Ok"
    /\ pc' = "done"
    /\ UNCHANGED <<readers, opt, lines, handed, frames, total, delta_max, ignored, depthmax, log>>

Next ==
    \/ ReverseBranch
    \/ FlameChartBranch
    \/ NoSortBranch
    \/ DefaultBranch
    \/ ReportIgnored
    \/ NoStackCounts
    \/ Prune
    \/ DrawFrames

Spec == Init /\ [][Next]_vars

(***************************************************************************)
(* Properties.                                                             *)
(***************************************************************************)
Tidied == TidyLines(lines)

\* The line parses in the count type of the call.
Parsable(line) == ParseFromLine(line, opt.is_diff, opt.frame_width_source).ok

NoParsableLine == \A i \in 1..Len(Tidied) : ~Parsable(Tidied[i])

CountLog(msg) == Cardinality({i \in 1..Len(log) : log[i] = msg})

NoRectWritten == \A i \in 1..Len(sink) : sink[i].tag # "rect"

ErrorSvg ==
    << [tag |-> "header"],
       [tag |-> "text: ERROR: No valid input provided to flamegraph"],
       [tag |-> "/svg"] >>

EmptyInputOutcome ==
    /\ result = "ErrInvalidData"
    /\ sink = ErrorSvg
    /\ CountLog("error: No stack counts found") = 1
    /\ NoRectWritten

\* The no_sort branch hands the tidied lines over as they are, and they are
\* out of order.
RejectedAsUnsorted ==
    /\ ~opt.reverse_stack_order
    /\ ~opt.flame_chart
    /\ opt.no_sort
    /\ ~IsSortedLines(Tidied)

RECURSIVE SumSeq(_)
SumSeq(s) == IF s = <<>> THEN 0 ELSE s[1] + SumSeq(Tail(s))

\* The merger has returned its frames and nothing has been pruned yet.
Emitted == pc \in {"merged", "checked"}

FrameById(id) == CHOOSE f \in {frames[i] : i \in 1..Len(frames)} : f.id = id

\* The frame g lies below the frame whose id is fid.
RECURSIVE Under(_, _)
Under(g, fid) ==
    /\ g.parent # 0
    /\ (g.parent = fid \/ Under(FrameById(g.parent), fid))

\* The names from the root down to the frame.
RECURSIVE PathOf(_)
PathOf(f) ==
    IF f.parent = 0 THEN <<f.function>>
    ELSE Append(PathOf(FrameById(f.parent)), f.function)

\* The k-th line handed to the merger, parsed.
HandedParse(k) == ParseFromLine(handed[k], opt.is_diff, opt.frame_width_source)

\* The valid line k passes through the frame f: it was read while f was
\* open and f's path leads its stack.
PassesThrough(k, f) ==
    /\ HandedParse(k).ok
    /\ f.first <= k
    /\ k <= f.last

PathLeads(k, f) ==
    LET this == <<<<>>>> \o Split(HandedParse(k).stack, SEMI)
        path == PathOf(f)
    IN  Len(path) <= Len(this) /\ SubSeq(this, 1, Len(path)) = path

\* Sums over the descendants of f and over the lines through f.
DescSelfB(f) ==
    SumSeq([j \in 1..Len(frames) |->
              IF Under(frames[j], f.id) THEN frames[j].self_count.b ELSE 0])

DescSelfA(f) ==
    SumSeq([j \in 1..Len(frames) |->
              IF Under(frames[j], f.id) THEN frames[j].self_count.a ELSE 0])

LinesB(f) ==
    SumSeq([k \in 1..Len(handed) |->
              IF PassesThrough(k, f) THEN HandedParse(k).count.b ELSE 0])

LinesA(f) ==
    SumSeq([k \in 1..Len(handed) |->
              IF PassesThrough(k, f) THEN HandedParse(k).count.a ELSE 0])

\* The same sums over the valid lines of the input itself.
InputParse(k) == ParseFromLine(Tidied[k], opt.is_diff, opt.frame_width_source)

InputB == SumSeq([k \in 1..Len(Tidied) |-> IF InputParse(k).ok THEN InputParse(k).count.b ELSE 0])

InputA == SumSeq([k \in 1..Len(Tidied) |-> IF InputParse(k).ok THEN InputParse(k).count.a ELSE 0])

\* C2: every emitted frame's total count is its self count plus the self
\* counts of its descendants, which is the sum of the counts of the valid
\* lines whose stack passes through it, before and after separately; every
\* valid input line passes through the root.
C2_TotalCount ==
    Emitted =>
        /\ \A i \in 1..Len(frames) :
             LET f == frames[i] IN
               /\ f.total_count.b = f.self_count.b + DescSelfB(f)
               /\ f.total_count.a = f.self_count.a + DescSelfA(f)
               /\ f.total_count.b = LinesB(f)
               /\ f.total_count.a = LinesA(f)
               /\ \A k \in 1..Len(handed) : PassesThrough(k, f) => PathLeads(k, f)
               /\ f.depth = 0 => f.total_count.b = InputB /\ f.total_count.a = InputA
        /\ (frames = <<>>) = NoParsableLine

\* A diff-mode frame below the root that spans several lines, has a child
\* and a before count that differs from its after count.
C2_Witness ==
    /\ Emitted
    /\ opt.is_diff
    /\ \E i, j \in 1..Len(frames) :
         /\ frames[j].parent = frames[i].id
         /\ frames[i].depth > 0
         /\ frames[i].total_count.b > frames[j].total_count.b
         /\ frames[i].total_count.b # frames[i].total_count.a
         /\ frames[i].last > frames[i].first

(***************************************************************************)
(* Widths.                                                                 *)
(***************************************************************************)
Width(f) == f.end_time - f.start_time

Abs(x) == IF x < 0 THEN -x ELSE x

Max2(x, y) == IF x > y THEN x ELSE y

\* The width metric of a {before, after} pair: the count itself in
\* single-count mode, the selected policy in diff mode.
Metric(c) ==
    IF ~opt.is_diff THEN c.a
    ELSE CASE opt.frame_width_source = "Before" -> c.b
           [] opt.frame_width_source = "After" -> c.a
           [] opt.frame_width_source = "Difference" -> Abs(c.a - c.b)
           [] opt.frame_width_source = "Common" -> Min(c.b, c.a)
           [] opt.frame_width_source = "AllSamples" -> c.b + c.a
           [] opt.frame_width_source = "Max" -> Max2(c.b, c.a)

\* The policies that are additive over lines.
Additive == ~opt.is_diff \/ opt.frame_width_source \in {"Before", "After", "AllSamples"}

LinesMetric(f) ==
    SumSeq([k \in 1..Len(handed) |->
              IF PassesThrough(k, f) THEN Metric(HandedParse(k).count) ELSE 0])

\* C3 as stated: the width of every emitted frame is the width metric of
\* its total {before, after} pair.
C3_AsStated == Emitted => \A i \in 1..Len(frames) : Width(frames[i]) = Metric(frames[i].total_count)

\* C3, amended: the width of every emitted frame is the sum, over the valid
\* lines through it, of the width metric of each line's own pair; under
\* Before, After, AllSamples and in single-count mode that is the metric of
\* the frame's total pair.
C3_Width ==
    Emitted =>
        \A i \in 1..Len(frames) :
            /\ Width(frames[i]) = LinesMetric(frames[i])
            /\ Additive => Width(frames[i]) = Metric(frames[i].total_count)

\* A diff-mode frame laid out by Difference that spans two lines which
\* differ in opposite directions.
C3_Witness ==
    /\ Emitted
    /\ opt.is_diff
    /\ opt.frame_width_source = "Difference"
    /\ \E i \in 1..Len(frames) :
         /\ frames[i].depth > 0
         /\ Width(frames[i]) > Abs(frames[i].total_count.a - frames[i].total_count.b)

(***************************************************************************)
(* Siblings.                                                               *)
(***************************************************************************)
\* g is the sibling emitted just before f under the same parent.
PrevSibling(g, f) ==
    /\ g.parent = f.parent
    /\ g.id < f.id
    /\ \A j \in 1..Len(frames) :
         frames[j].parent = f.parent => ~(g.id < frames[j].id /\ frames[j].id < f.id)

Abutting ==
    \A i, j \in 1..Len(frames) :
        PrevSibling(frames[j], frames[i]) => frames[i].start_time = frames[j].end_time

\* C4 as stated: in every mode each emitted frame has start < end and
\* starts where the sibling before it ends.
C4_AsStated ==
    Emitted => /\ \A i \in 1..Len(frames) : frames[i].start_time < frames[i].end_time
               /\ Abutting

\* C4, amended: in every mode each emitted frame has start <= end, with
\* start < end exactly when its total count is positive in the width
\* metric, and starts where the sibling before it ends.
C4_Siblings ==
    Emitted => /\ \A i \in 1..Len(frames) :
                    /\ frames[i].start_time <= frames[i].end_time
                    /\ (frames[i].start_time < frames[i].end_time) = (frames[i].total_count.v > 0)
               /\ Abutting

\* A frame of width zero, not at the origin, whose sibling before it has
\* positive width.
C4_Witness ==
    /\ Emitted
    /\ \E i, j \in 1..Len(frames) :
         /\ PrevSibling(frames[j], frames[i])
         /\ frames[i].start_time > 0
         /\ Width(frames[i]) = 0
         /\ Width(frames[j]) > 0

(***************************************************************************)
(* Parents and children.                                                   *)
(***************************************************************************)
Range(f) == f.start_time .. (f.end_time - 1)

Children(f) == {frames[j] : j \in {k \in 1..Len(frames) : frames[k].parent = f.id}}

ChildrenRange(f) == UNION {Range(c) : c \in Children(f)}

\* C5 as stated: the time ranges of the children of an emitted frame make
\* up the frame's own range.
C5_AsStated ==
    Emitted => \A i \in 1..Len(frames) :
                  Children(frames[i]) # {} => ChildrenRange(frames[i]) = Range(frames[i])

\* C5, amended: the time ranges of the children of an emitted frame make up
\* the frame's own range without its leading self part, whose width is the
\* frame's self count in the width metric.
C5_Children ==
    Emitted => \A i \in 1..Len(frames) :
                  Children(frames[i]) # {} =>
                      ChildrenRange(frames[i]) =
                          (frames[i].start_time + frames[i].self_count.v) .. (frames[i].end_time - 1)

\* A frame below the root with a self part and a child of positive width.
C5_Witness ==
    /\ Emitted
    /\ \E i \in 1..Len(frames) :
         /\ frames[i].depth > 0
         /\ frames[i].self_count.v > 0
         /\ \E c \in Children(frames[i]) : Width(c) > 0

(***************************************************************************)
(* The root.                                                               *)
(***************************************************************************)
Roots == {frames[j] : j \in {k \in 1..Len(frames) : frames[k].depth = 0}}

\* V as the input gives it: the valid input lines' counts in the width metric.
InputMetric ==
    SumSeq([k \in 1..Len(Tidied) |->
              IF InputParse(k).ok THEN Metric(InputParse(k).count) ELSE 0])

\* The values written as total_samples.
TotalSamplesWritten ==
    {sink[i].total_samples : i \in {k \in 1..Len(sink) : sink[k].tag = "frames"}}

\* C6: with a valid input line the merger emits exactly one frame of depth
\* 0, its name is empty and its width is the overall total V in the width
\* metric, which is the value written as total_samples; without a valid
\* line it emits no frame of depth 0.
C6_Root ==
    /\ Emitted =>
         IF NoParsableLine THEN Roots = {}
         ELSE /\ Cardinality(Roots) = 1
              /\ \A f \in Roots : /\ f.function = <<>>
                                  /\ total # <<>>
                                  /\ Width(f) = total[1].v
                                  /\ Width(f) = InputMetric
    /\ pc \in {"draw", "done"} /\ result \in {"Running", "Ok"} =>
         /\ Cardinality(Roots) = 1
         /\ \A f \in Roots : TotalSamplesWritten = {Width(f)}

\* A finished diff render of several valid lines whose before and after
\* totals differ and whose root is as wide as the total_samples written.
C6_Witness ==
    /\ pc = "done"
    /\ result = "Ok"
    /\ opt.is_diff
    /\ total[1].b # total[1].a
    /\ \E f \in Roots : f.last > f.first /\ Width(f) > 0 /\ Width(f) \in TotalSamplesWritten

(***************************************************************************)
(* Pruning.                                                                *)
(***************************************************************************)
Finished == pc = "done" /\ result = "Ok"

\* The frames the merger returned for the lines it was handed.
EmittedFrames ==
    Frames(handed, ~opt.reverse_stack_order /\ opt.flame_chart,
           opt.frame_width_source, opt.is_diff).frames

Rects == {sink[i] : i \in {k \in 1..Len(sink) : sink[k].tag = "rect"}}

RectWidth(r) == r.x2_samples - r.x1_samples

Written(f) == \E r \in Rects : r.id = f.id

\* w is less than min_width percent of V; min_width is in hundredths of a
\* percent.
BelowMinWidth(w) == 10000 * w < opt.min_width * total[1].v

NoNarrowRect == \A r \in Rects : ~BelowMinWidth(RectWidth(r))

WideFramesWritten ==
    \A i \in 1..Len(EmittedFrames) :
        ~BelowMinWidth(Width(EmittedFrames[i])) => Written(EmittedFrames[i])

\* C7 as stated: after a render no rectangle narrower than min_width
\* percent of V is written, every emitted frame at least that wide is
\* written, and no rectangle of width 0 is written when min_width > 0.
C7_AsStated ==
    Finished =>
        /\ NoNarrowRect
        /\ WideFramesWritten
        /\ opt.min_width > 0 => \A r \in Rects : RectWidth(r) # 0

\* The part of C7 that holds: the first two clauses, and no rectangle of
\* width 0 when min_width > 0 and V > 0.
C7_Retained ==
    Finished =>
        /\ NoNarrowRect
        /\ WideFramesWritten
        /\ (opt.min_width > 0 /\ total[1].v > 0) => \A r \in Rects : RectWidth(r) # 0

\* A finished render with min_width > 0 whose overall total is 0 in the
\* width metric and which wrote a rectangle of width 0 above the root.
C7_Witness ==
    /\ Finished
    /\ opt.min_width > 0
    /\ total[1].v = 0
    /\ \E r \in Rects : r.depth > 0 /\ RectWidth(r) = 0

(***************************************************************************)
(* Ordering.                                                               *)
(***************************************************************************)
Bijections(n) == {f \in [1..n -> 1..n] : \A i, j \in 1..n : f[i] = f[j] => i = j}

\* The orders in which the lines of the call could have been given.
Orders(ls) == {[i \in 1..Len(ls) |-> ls[f[i]]] : f \in Bijections(Len(ls))}

DefaultMode == ~opt.reverse_stack_order /\ ~opt.flame_chart /\ ~opt.no_sort

NoSortMode == ~opt.reverse_stack_order /\ ~opt.flame_chart /\ opt.no_sort

\* What the merger returned to this call.
Returned ==
    [err |-> FALSE, frames |-> frames, total |-> total, ignored |-> ignored,
     delta_max |-> delta_max]

MergeOf(ls) == Frames(ls, FALSE, opt.frame_width_source, opt.is_diff)

\* C8: in default mode the merger's result is the same for every order of
\* the input lines and is the result for the sorted lines; the call never
\* fails as unsorted.
C8_DefaultOrder ==
    DefaultMode =>
        /\ result # "ErrUnsorted"
        /\ Emitted =>
             /\ handed = SortLines(Tidied)
             /\ IsSortedLines(handed)
             /\ \A p \in Orders(lines) :
                  /\ MergeOf(DefaultLinesToMerge(p)) = Returned
                  /\ MergeOf(SortLines(TidyLines(p))) = Returned

\* A default-mode merge of out-of-order lines that are all valid.
C8_Witness ==
    /\ DefaultMode
    /\ Emitted
    /\ ~IsSortedLines(Tidied)
    /\ ignored = 0
    /\ Len(frames) >= 3

NoSortIgnored == "warn: no_sort is being ignored"

\* C10: with reverse_stack_order the merger is handed the reversed lines
\* sorted, whatever no_sort is; the call never fails as unsorted, every
\* order of the input lines gives the same result, and the warning that
\* no_sort is being ignored is logged once when no_sort is set and never
\* otherwise.
C10_Reversed ==
    (opt.reverse_stack_order /\ pc # "start") =>
        /\ handed = SortLines(ReverseLines(Tidied))
        /\ IsSortedLines(handed)
        /\ result # "ErrUnsorted"
        /\ CountLog(NoSortIgnored) = IF opt.no_sort THEN 1 ELSE 0
        /\ Emitted => \A p \in Orders(lines) :
                         MergeOf(ReverseLinesToMerge(p)) = Returned

\* A reversed merge with no_sort set, of valid lines which are out of order
\* once reversed and of which one has two frames.
C10_Witness ==
    /\ opt.reverse_stack_order
    /\ opt.no_sort
    /\ Emitted
    /\ ignored = 0
    /\ ~IsSortedLines(ReverseLines(Tidied))
    /\ \E i \in 1..Len(frames) : frames[i].depth = 2

(***************************************************************************)
(* Reversal.  A second specification: from_lines with reverse_stack_order  *)
(* on one line made of any bytes of a small alphabet, or on a few lines    *)
(* of a corpus whose frames hold spaces.                                   *)
(***************************************************************************)
\* 'a', 'b', ';', ' ', '1'
ReverseAlphabet == {97, 98, SEMI, SP, 49}

MaxChars == 5

\*   "a;b 1"    "a; b 1"    "b;a 2 1"    "x"
ReverseCorpus ==
    { <<97, 59, 98, 32, 49>>,
      <<97, 59, 32, 98, 32, 49>>,
      <<98, 59, 97, 32, 50, 32, 49>>,
      <<120>> }

ReverseOptions ==
    { o \in OptionsSet :
        /\ o.reverse_stack_order
        /\ ~o.flame_chart
        /\ o.min_width = 1
        /\ o.frame_width_source = "After" }

InitReverse ==
    /\ readers = <<>>
    /\ opt \in ReverseOptions
    /\ lines \in {<<s>> : s \in SeqsUpTo(ReverseAlphabet, MaxChars)}
                 \cup SeqsUpTo(ReverseCorpus, MaxLines)
    /\ pc = "start"
    /\ handed = <<>>
    /\ frames = <<>>
    /\ total = <<>>
    /\ delta_max = <<>>
    /\ ignored = 0
    /\ depthmax = 0
    /\ log = <<>>
    /\ sink = <<>>
    /\ result = "Running"

NextReverse ==
    \/ ReverseBranch
    \/ ReportIgnored
    \/ NoStackCounts
    \/ Prune
    \/ DrawFrames

SpecReverse == InitReverse /\ [][NextReverse]_vars

TwiceReversed(line) == ReverseLine(ReverseLine(line))

\* C11 as stated: every valid line reversed twice is the line itself, and
\* the merge of the twice-reversed, sorted lines is the merge of the sorted
\* lines.
C11_AsStated ==
    (opt.reverse_stack_order /\ pc # "start") =>
        /\ \A k \in 1..Len(Tidied) : Parsable(Tidied[k]) => TwiceReversed(Tidied[k]) = Tidied[k]
        /\ MergeOf(SortLines(ReverseLines(handed))) = MergeOf(SortLines(Tidied))

\* The line is of the input grammar: frames free of spaces, then one or two
\* counts, each after a single space.
Tokens(line) == Split(line, SP)

IsCount(t) == SamplesToken(t, 0, Find(t, 46)).found

InGrammar(line) ==
    /\ Len(Tokens(line)) \in {2, 3}
    /\ Tokens(line)[1] # <<>>
    /\ \A i \in 2..Len(Tokens(line)) : IsCount(Tokens(line)[i])

\* The line with its frames in reverse order and its counts as they are.
FramesReversed(line) ==
    Join(Rev(Split(Tokens(line)[1], SEMI)), SEMI)
        \o Slice(line, Len(Tokens(line)[1]), Len(line))

AllInGrammar == \A k \in 1..Len(Tidied) : InGrammar(Tidied[k])

\* C11, amended: a line of the input grammar is reversed frame by frame
\* with its counts kept, and reversed twice it is the line itself; when all
\* lines are of the grammar, the merge of the twice-reversed, sorted lines
\* is the merge of the sorted lines.
C11_Involution ==
    (opt.reverse_stack_order /\ pc # "start") =>
        /\ \A k \in 1..Len(Tidied) :
             InGrammar(Tidied[k]) =>
                 /\ ReverseLine(Tidied[k]) = FramesReversed(Tidied[k])
                 /\ TwiceReversed(Tidied[k]) = Tidied[k]
        /\ AllInGrammar =>
             MergeOf(SortLines(ReverseLines(handed))) = MergeOf(SortLines(Tidied))

\* A reversed merge of two grammar lines, of which one has two frames and
\* two counts, that come out of order once reversed.
C11_Witness ==
    /\ opt.reverse_stack_order
    /\ Emitted
    /\ Len(Tidied) = 2
    /\ AllInGrammar
    /\ ~IsSortedLines(ReverseLines(Tidied))
    /\ \E k \in 1..2 : Len(Tokens(Tidied[k])) = 3 /\ Len(Split(Tokens(Tidied[k])[1], SEMI)) = 2

(***************************************************************************)
(* The four branches of from_lines, with the width source and min_width    *)
(* at their defaults.                                                      *)
(***************************************************************************)
BranchOptions ==
    {o \in OptionsSet : o.min_width = 1 /\ o.frame_width_source = "After"}

InitBranches ==
    /\ readers = <<>>
    /\ opt \in BranchOptions
    /\ lines \in SeqsUpTo(Corpus, MaxLines)
    /\ pc = "start"
    /\ handed = <<>>
    /\ frames = <<>>
    /\ total = <<>>
    /\ delta_max = <<>>
    /\ ignored = 0
    /\ depthmax = 0
    /\ log = <<>>
    /\ sink = <<>>
    /\ result = "Running"

SpecBranches == InitBranches /\ [][Next]_vars

(***************************************************************************)
(* flame_chart together with reverse_stack_order.                          *)
(***************************************************************************)
BothSet == opt.flame_chart /\ opt.reverse_stack_order

FlameMode == ~opt.reverse_stack_order /\ opt.flame_chart

ValidHanded == {k \in 1..Len(handed) : HandedParse(k).ok}

StackOf(k) == Split(HandedParse(k).stack, SEMI)

\* The timed frames that line k opened for the deepest frame of its stack.
LeafOf(k) ==
    {i \in 1..Len(frames) :
        frames[i].first = k /\ frames[i].depth = Len(StackOf(k))}

LeafFrames == UNION {LeafOf(k) : k \in ValidHanded}

BaseCorpus ==
    { <<97, 59, 98, 59, 99, 32, 49>>,
      <<97, 59, 99, 59, 99, 32, 49>>,
      <<99, 59, 97, 32, 49>>,
      <<98, 59, 97, 59, 98, 32, 49>>,
      <<98, 32, 49>> }

\* The base symbols: {"a"}, {"c"}, {"a", "c"}.
BaseSets == {{<<97>>}, {<<99>>}, {<<97>>, <<99>>}}

BaseOptions ==
    [reverse_stack_order : {FALSE}, flame_chart : {FALSE}, no_sort : {FALSE},
     is_diff : {FALSE}, frame_width_source : {"After"},
     min_width : MinWidths, base : BaseSets,
     negate_differentials : {FALSE}, normalize : {FALSE},
     include_children : {FALSE}, detailed_tooltips : {FALSE},
     hash : {TRUE}, deterministic : {FALSE}]

InitBase ==
    /\ readers = <<>>
    /\ opt \in BaseOptions
    /\ lines \in SeqsUpTo(BaseCorpus, MaxLines)
    /\ pc = "start"
    /\ handed = <<>>
    /\ frames = <<>>
    /\ total = <<>>
    /\ delta_max = <<>>
    /\ ignored = 0
    /\ depthmax = 0
    /\ log = <<>>
    /\ sink = <<>>
    /\ result = "Running"

NextBase ==
    \/ DefaultBranch
    \/ ReportIgnored
    \/ NoStackCounts
    \/ Prune
    \/ DrawFrames

SpecBase == InitBase /\ [][NextBase]_vars

BaseMode == DefaultMode /\ opt.base # {}

\* The names of the frames of a line, the root first.
StackNames(line) == Split(Tokens(line)[1], SEMI)

BasePositions(line) ==
    {i \in 1..Len(StackNames(line)) : StackNames(line)[i] \in opt.base}

HasBase(line) == BasePositions(line) # {}

RightMostBase(line) ==
    CHOOSE i \in BasePositions(line) : \A j \in BasePositions(line) : j <= i

\* The line from its right-most base frame on: that frame, the frames to
\* its right and the counts.
FromRightMostBase(line) ==
    Join(SubSeq(StackNames(line), RightMostBase(line), Len(StackNames(line))), SEMI)
    \o Slice(line, Len(Tokens(line)[1]), Len(line))

\* C14 as stated: with a non-empty base set, every stack handed on by the
\* base filter is an input stack cut to begin at its right-most frame named
\* in the base set, the leaf included.
C14_AsStated ==
    (BaseMode /\ pc # "start") =>
        \A k \in 1..Len(handed) :
            \E j \in 1..Len(Tidied) :
                HasBase(Tidied[j]) /\ handed[k] = FromRightMostBase(Tidied[j])

\* The right-most base frame of an input line is its leaf, and the line
\* was handed on cut at an earlier base frame.
C14_Witness ==
    /\ BaseMode
    /\ Emitted
    /\ Len(Tidied) = 1
    /\ Len(handed) = 1
    /\ HasBase(Tidied[1])
    /\ RightMostBase(Tidied[1]) = Len(StackNames(Tidied[1]))
    /\ Len(handed[1]) > Len(FromRightMostBase(Tidied[1]))

\* C15 as stated: with a non-empty base set, a stack is dropped exactly
\* when none of its frames is named in the base set: as many stacks are
\* handed to the merger as there are input stacks with a base symbol.
C15_AsStated ==
    (BaseMode /\ pc # "start") =>
        Len(handed) = Cardinality({j \in 1..Len(Tidied) : HasBase(Tidied[j])})

\* Every input stack has a base symbol, as its first frame or as its leaf
\* only, and none was handed to the merger: the error SVG was written.
C15_Witness ==
    /\ BaseMode
    /\ pc = "done"
    /\ result = "ErrInvalidData"
    /\ sink = ErrorSvg
    /\ Len(Tidied) = 2
    /\ handed = <<>>
    /\ \A j \in 1..2 : HasBase(Tidied[j])
    /\ \E j \in 1..2 : BasePositions(Tidied[j]) = {1}
    /\ \E j \in 1..2 : BasePositions(Tidied[j]) = {Len(StackNames(Tidied[j]))} \ {1}

(***************************************************************************)
(* from_readers and is_diff_case.                                          *)
(***************************************************************************)
NL == 10

\* str::lines: the text between the line feeds; a last line without a line
\* feed counts, nothing follows a final line feed.
StrLines(text) ==
    IF Split(text, NL)[Len(Split(text, NL))] = <<>>
    THEN SubSeq(Split(text, NL), 1, Len(Split(text, NL)) - 1)
    ELSE Split(text, NL)

\* reader.read_to_string(&mut input) for every reader in turn.
RECURSIVE ReadToString(_)
ReadToString(rs) == IF rs = <<>> THEN <<>> ELSE rs[1] \o ReadToString(Tail(rs))

\* The loop of is_diff_case over the tidied lines.
RECURSIVE IsDiffScan(_)
IsDiffScan(ls) ==
    IF ls = <<>> THEN FALSE
    ELSE IF ParseFromLine(ls[1], TRUE, "After").ok THEN TRUE
    ELSE IF ParseFromLine(ls[1], FALSE, "After").ok THEN FALSE
    ELSE IsDiffScan(Tail(ls))

\* is_diff_case answering true when any line has two counts.
IsDiffCaseAnyLine(input) ==
    \E k \in 1..Len(TidyLines(StrLines(input))) :
        ParseFromLine(TidyLines(StrLines(input))[k], TRUE, "After").ok

IsDiffCase(input) == IsDiffScan(TidyLines(StrLines(input)))

\* from_readers: the readers are read into one string, is_diff_case picks
\* the count type, from_lines is given input.lines().
FromReaders ==
    /\ pc = "readers"
    /\ opt' = [opt EXCEPT !.is_diff = IsDiffCase(ReadToString(readers))]
    /\ lines' = StrLines(ReadToString(readers))
    /\ pc' = "start"
    /\ UNCHANGED <<readers, handed, frames, total, delta_max, ignored, depthmax, log, sink, result>>

\* The lines the readers' texts are made of:
\*   "a 1"    "a;b 2 1"    "b 1 0"    "x"    "# c"    ""
ReadersCorpus ==
    { <<97, 32, 49>>,
      <<97, 59, 98, 32, 50, 32, 49>>,
      <<98, 32, 49, 32, 48>>,
      <<120>>,
      <<35, 32, 99>>,
      <<>> }

\* A reader's text: its lines, a line feed between them and, when
\* `ended`, one after the last.
TextOf(ls, ended) == Join(ls, NL) \o (IF ended /\ ls # <<>> THEN <<NL>> ELSE <<>>)

\* The count type is not chosen before from_readers has read the input:
\* is_diff starts as FALSE and is set by FromReaders.
ReadersOptions ==
    [reverse_stack_order : {FALSE}, flame_chart : {FALSE}, no_sort : BOOLEAN,
     is_diff : {FALSE}, frame_width_source : {"After", "Before"},
     min_width : {1}, base : {{}},
     negate_differentials : {FALSE}, normalize : {FALSE},
     include_children : {FALSE}, detailed_tooltips : {FALSE},
     hash : {TRUE}, deterministic : {FALSE}]

InitReaders ==
    /\ readers \in {<<TextOf(ls, ended)>> : ls \in SeqsUpTo(ReadersCorpus, MaxLines),
                                            ended \in BOOLEAN}
    /\ opt \in ReadersOptions
    /\ lines = <<>>
    /\ pc = "readers"
    /\ handed = <<>>
    /\ frames = <<>>
    /\ total = <<>>
    /\ delta_max = <<>>
    /\ ignored = 0
    /\ depthmax = 0
    /\ log = <<>>
    /\ sink = <<>>
    /\ result = "Running"

NextReaders ==
    \/ FromReaders
    \/ NoSortBranch
    \/ DefaultBranch
    \/ ReportIgnored
    \/ NoStackCounts
    \/ Prune
    \/ DrawFrames

SpecReaders == InitReaders /\ [][NextReaders]_vars

TwoCount(line) == ParseFromLine(line, TRUE, "After").ok

ParsesAtAll(line) == TwoCount(line) \/ ParseFromLine(line, FALSE, "After").ok

\* The first non-blank, non-comment line that parses at all.
Deciding ==
    {k \in 1..Len(Tidied) : ParsesAtAll(Tidied[k]) /\ \A j \in 1..(k - 1) : ~ParsesAtAll(Tidied[j])}

\* C16: from_readers gives from_lines the lines of the input and renders
\* in diff mode exactly when the first non-blank, non-comment line that
\* parses at all parses as two-count: not when that line parses only as
\* one-count, whatever the lines after it are, and not when no line
\* parses.
C16_DecidedByFirst ==
    pc # "readers" =>
        /\ lines = StrLines(ReadToString(readers))
        /\ opt.is_diff = (\E k \in Deciding : TwoCount(Tidied[k]))
        /\ (Emitted /\ ~opt.no_sort) =>
               Returned = Frames(SortLines(Tidied), FALSE, opt.frame_width_source,
                                 \E k \in Deciding : TwoCount(Tidied[k]))

\* The deciding line has one count, the line after it has two, and the
\* lines were merged as single-count lines: the second line's frame is
\* named with its first count.
C16_Witness ==
    /\ readers # <<>>
    /\ Emitted
    /\ Len(Tidied) = 2
    /\ Deciding = {1}
    /\ ~TwoCount(Tidied[1])
    /\ TwoCount(Tidied[2])
    /\ ~opt.is_diff
    /\ ignored = 0
    /\ \E i \in 1..Len(frames) : Len(frames[i].function) > 1

(***************************************************************************)
(* Differential graphs: the deltas of the colour and of the tooltips.      *)
(***************************************************************************)
\* The lines of the differential inputs:
\*   "a 1 3"    "b 3 1"    "a;b 2 1"    "a;c 0 3"    "b 1 0"    "a 1"
DiffCorpus ==
    { <<97, 32, 49, 32, 51>>,
      <<98, 32, 51, 32, 49>>,
      <<97, 59, 98, 32, 50, 32, 49>>,
      <<97, 59, 99, 32, 48, 32, 51>>,
      <<98, 32, 49, 32, 48>>,
      <<97, 32, 49>> }

DiffOptions ==
    [reverse_stack_order : {FALSE}, flame_chart : {FALSE}, no_sort : {FALSE},
     is_diff : {TRUE}, frame_width_source : {"After", "Difference"},
     min_width : {1}, base : {{}},
     negate_differentials : BOOLEAN, normalize : BOOLEAN,
     include_children : BOOLEAN, detailed_tooltips : BOOLEAN,
     hash : {TRUE}, deterministic : {FALSE}]

InitDiff ==
    /\ readers = <<>>
    /\ opt \in DiffOptions
    /\ lines \in SeqsUpTo(DiffCorpus, MaxLines)
    /\ pc = "start"
    /\ handed = <<>>
    /\ frames = <<>>
    /\ total = <<>>
    /\ delta_max = <<>>
    /\ ignored = 0
    /\ depthmax = 0
    /\ log = <<>>
    /\ sink = <<>>
    /\ result = "Running"

NextDiff ==
    \/ DefaultBranch
    \/ ReportIgnored
    \/ NoStackCounts
    \/ Prune
    \/ DrawFrames

SpecDiff == InitDiff /\ [][NextDiff]_vars

\* What the default branch and the merger make of the lines ls under the
\* options o.
MergeFor(o, ls) ==
    Frames(SortLines(BaseLines(TidyLines(ls), o.base)), FALSE,
           o.frame_width_source, o.is_diff)

RectsOfMerge(o, m) ==
    IF m.err \/ m.total = <<>> THEN {}
    ELSE {RectOf(o, f, m.total[1], m.delta_max, 0) :
            f \in {Retain(m.frames, m.total[1], o.min_width)[i] :
                     i \in 1..Len(Retain(m.frames, m.total[1], o.min_width))}}

\* The rectangles written for the lines ls under the options o.
RectsFor(o, ls) == RectsOfMerge(o, MergeFor(o, ls))

DiffDrawn == Finished /\ opt.is_diff /\ DefaultMode

RatEq(p, q) == p.n * q.d = q.n * p.d /\ (p.d = 0) = (q.d = 0)

TxtEq(t, u) == t.sign = u.sign /\ RatEq(t.abs, u.abs)

FlipSign(sign) == IF sign = "+" THEN "-" ELSE IF sign = "-" THEN "+" ELSE ""

\* The percent text u shows the negation of the value the text t shows.
TxtNegated(t, u) == u.sign = FlipSign(t.sign) /\ RatEq(t.abs, u.abs)

\* r is the rectangle r0 with every delta negated.
RectNegated(r0, r) ==
    /\ r.colour.scale = r0.colour.scale
    /\ r.colour.scale = "diff" => r.colour.delta = -r0.colour.delta
    /\ r.tooltip.kind = r0.tooltip.kind
    /\ r.tooltip.kind = "brief" => TxtNegated(r0.tooltip.delta_pct, r.tooltip.delta_pct)
    /\ r.tooltip.kind = "detailed" =>
           /\ TxtNegated(r0.tooltip.self_change, r.tooltip.self_change)
           /\ TxtNegated(r0.tooltip.total_change, r.tooltip.total_change)

WithoutNegation == [opt EXCEPT !.negate_differentials = FALSE]

\* C17 as stated: with negate_differentials set, the colour delta of every
\* frame and every percent-point change of its tooltip, the brief one and
\* the Self and Total 'Change' lines of the detailed one, are the negation
\* of what the same input gives with negate_differentials unset.
C17_AsStated ==
    (DiffDrawn /\ opt.negate_differentials) =>
        \A r \in Rects : \A r0 \in RectsFor(WithoutNegation, lines) :
            r.id = r0.id => RectNegated(r0, r)

\* negate_differentials is set, a frame's colour delta is negative, and its
\* detailed tooltip shows the positive Self change of the run without
\* negation.
C17_Witness ==
    /\ DiffDrawn
    /\ opt.negate_differentials
    /\ \E r \in Rects : \E r0 \in RectsFor(WithoutNegation, lines) :
        /\ r.id = r0.id
        /\ r.colour.scale = "diff"
        /\ r0.colour.delta > 0
        /\ r.colour.delta = -r0.colour.delta
        /\ r.tooltip.kind = "detailed"
        /\ r.tooltip.self_change.sign = "+"
        /\ r.tooltip.self_change = r0.tooltip.self_change

(***************************************************************************)
(* Scaling the datasets of a differential input.                           *)
(***************************************************************************)
MaxScale == 2

Scales == 2..MaxScale

\* The decimal digits of a natural number.
RECURSIVE Digits(_)
Digits(n) == IF n < 10 THEN <<48 + n>> ELSE Digits(n \div 10) \o <<48 + (n % 10)>>

ScaledParse(line, p, kb, ka) ==
    IF ~p.ok THEN line
    ELSE p.stack \o <<SP>> \o Digits(kb * p.count.b) \o <<SP>> \o Digits(ka * p.count.a)

\* The two-count line with its before count multiplied by kb and its after
\* count by ka.
ScaleLine(line, kb, ka) == ScaledParse(line, ParseDiff(line, "After"), kb, ka)

ScaleLines(ls, kb, ka) == [i \in 1..Len(ls) |-> ScaleLine(ls[i], kb, ka)]

OneScaled == {<<k, 1>> : k \in Scales} \cup {<<1, k>> : k \in Scales}

\* The rectangles for the input with the before counts multiplied by s[1]
\* and the after counts by s[2].
ScaledRects(s) == RectsFor(opt, ScaleLines(lines, s[1], s[2]))

SameTooltipDeltas(r, r2) ==
    /\ r.tooltip.kind = r2.tooltip.kind
    /\ r.tooltip.kind = "brief" => TxtEq(r.tooltip.delta_pct, r2.tooltip.delta_pct)
    /\ r.tooltip.kind = "detailed" =>
           /\ TxtEq(r.tooltip.self_change, r2.tooltip.self_change)
           /\ TxtEq(r.tooltip.total_change, r2.tooltip.total_change)

SameDeltas(r, r2) ==
    /\ r.colour = r2.colour
    /\ SameTooltipDeltas(r, r2)

\* C18 as stated: in diff mode with normalize unset, multiplying every
\* before count, or every after count, of the input by the same positive
\* integer leaves the raw delta and the percent-point delta of every frame
\* as they were.
C18_AsStated ==
    (DiffDrawn /\ ~opt.normalize) =>
        \A s \in OneScaled : \A r \in Rects : \A r2 \in ScaledRects(s) :
            r.id = r2.id => SameDeltas(r, r2)

\* C18, amended: in diff mode with normalize unset, multiplying every
\* count of both datasets by the same positive integer k gives the same
\* frames, leaves every percent-point delta of the tooltips as it was, and
\* multiplies the raw delta of the colour and its maximum by k.
C18_BothScaled ==
    (DiffDrawn /\ ~opt.normalize) =>
        \A k \in Scales :
            /\ {r.id : r \in Rects} = {r2.id : r2 \in ScaledRects(<<k, k>>)}
            /\ \A r \in Rects : \A r2 \in ScaledRects(<<k, k>>) :
                r.id = r2.id =>
                    /\ SameTooltipDeltas(r, r2)
                    /\ r2.colour.scale = r.colour.scale
                    /\ r.colour.scale = "diff" =>
                           /\ r2.colour.delta = k * r.colour.delta
                           /\ r2.colour.delta_max = k * r.colour.delta_max

\* A differential graph drawn without normalize from two lines whose
\* totals differ: a frame with a brief tooltip has a delta other than
\* zero, which doubles when every count is doubled, and its percent-point
\* delta is another one when only the after counts are doubled.
C18_Witness ==
    /\ DiffDrawn
    /\ ~opt.normalize
    /\ Len(Tidied) = 2
    /\ ignored = 0
    /\ total[1].a # total[1].b
    /\ \E r \in Rects : \E r2 \in ScaledRects(<<2, 2>>) : \E r1 \in ScaledRects(<<1, 2>>) :
        /\ r.id = r2.id
        /\ r.id = r1.id
        /\ r.tooltip.kind = "brief"
        /\ r.colour.delta # 0
        /\ r2.colour.delta = 2 * r.colour.delta
        /\ ~TxtEq(r.tooltip.delta_pct, r1.tooltip.delta_pct)

\* C19: in diff mode with normalize set, multiplying every after count, or
\* every before count, of the input by the same positive integer leaves
\* the percent-point delta 100 * (x/Ta - y/Tb) of every frame as it was:
\* the one of the brief tooltip, the Self and Total changes of the detailed
\* tooltip, and the normalized delta of the colour with its maximum.
C19_ScaleRatio ==
    (DiffDrawn /\ opt.normalize) =>
        \A s \in OneScaled : \A r \in Rects : \A r2 \in ScaledRects(s) :
            r.id = r2.id => SameDeltas(r, r2)

\* A differential graph drawn with normalize from two lines whose totals
\* differ: a frame with a brief tooltip has a percent-point delta other
\* than zero and is drawn too when the after counts, and when the before
\* counts, are doubled.
C19_Witness ==
    /\ DiffDrawn
    /\ opt.normalize
    /\ Len(Tidied) = 2
    /\ ignored = 0
    /\ total[1].a # total[1].b
    /\ total[1].a > 0
    /\ total[1].b > 0
    /\ \E r \in Rects : \E r1 \in ScaledRects(<<1, 2>>) : \E r2 \in ScaledRects(<<2, 1>>) :
        /\ r.id = r1.id
        /\ r.id = r2.id
        /\ r.tooltip.kind = "brief"
        /\ r.tooltip.delta_pct.sign # ""
        /\ r.colour.delta # 0
        /\ r1.colour = r.colour

(***************************************************************************)
(* Nothing is written before the merger has returned.                      *)
(***************************************************************************)
\* What merge::frames returns for the lines it was handed.
MergeOfHanded ==
    Frames(handed, ~opt.reverse_stack_order /\ opt.flame_chart,
           opt.frame_width_source, opt.is_diff)

\* C20: nothing is written to the sink before the merger has read every
\* line it was handed and returned: while the sink is not empty the merge
\* has succeeded and its overall total and ignored tally are those of all
\* the lines, and when the merge fails as unsorted the call ends with an
\* empty sink.
C20_MergedBeforeWritten ==
    /\ pc \in {"start", "merged", "checked"} => sink = <<>>
    /\ result = "ErrUnsorted" => (pc = "done" /\ sink = <<>>)
    /\ sink # <<>> =>
        LET m == MergeOfHanded
        IN  /\ ~m.err
            /\ total = m.total
            /\ ignored = m.ignored

\* Two lines out of order under no_sort: the merger refused them, the call
\* returned the error and the sink is empty.
C20_Witness ==
    /\ NoSortMode
    /\ pc = "done"
    /\ result = "ErrUnsorted"
    /\ Len(handed) = 2
    /\ StrLess(handed[2], handed[1])
    /\ sink = <<>>

(***************************************************************************)
(* The ignored tally and its warning.                                      *)
(***************************************************************************)
IgnoredOptions == {o \in BranchOptions : ~o.flame_chart /\ ~o.no_sort}

InitIgnored ==
    /\ readers = <<>>
    /\ opt \in IgnoredOptions
    /\ lines \in {<<s>> : s \in SeqsUpTo(ReverseAlphabet, MaxChars)}
                 \cup SeqsUpTo(Corpus, MaxLines)
    /\ pc = "start"
    /\ handed = <<>>
    /\ frames = <<>>
    /\ total = <<>>
    /\ delta_max = <<>>
    /\ ignored = 0
    /\ depthmax = 0
    /\ log = <<>>
    /\ sink = <<>>
    /\ result = "Running"

NextIgnored ==
    \/ ReverseBranch
    \/ DefaultBranch
    \/ ReportIgnored
    \/ NoStackCounts
    \/ Prune
    \/ DrawFrames

SpecIgnored == InitIgnored /\ [][NextIgnored]_vars

IgnoredWarning == "warn: ignored lines with invalid format"

Unparsable == {k \in 1..Len(Tidied) : ~Parsable(Tidied[k])}

\* C21 as stated: in default mode and with reverse_stack_order alike, the
\* ignored tally is the number of non-blank, non-comment input lines that
\* fail to parse, and the warning about ignored lines is logged once per
\* render when the tally is positive and never when it is zero.
C21_AsStated ==
    pc # "start" =>
        /\ result # "ErrUnsorted"
        /\ ignored = Cardinality(Unparsable)
        /\ CountLog(IgnoredWarning) =
               IF pc # "merged" /\ ignored > 0 THEN 1 ELSE 0

\* A render with reverse_stack_order that is through: its one line fails
\* to parse, yet nothing was ignored, no warning was logged and a frame
\* was drawn for the line.
C21_Witness ==
    /\ opt.reverse_stack_order
    /\ Finished
    /\ Len(Tidied) = 1
    /\ Unparsable = {1}
    /\ ignored = 0
    /\ CountLog(IgnoredWarning) = 0
    /\ \E r \in Rects : r.depth = 1

(***************************************************************************)
(* from_readers with several readers.                                      *)
(***************************************************************************)
\* The lines the texts of several readers are made of:
\*   "a 1"    "b 1"    "a;b 2 1"
FilesCorpus ==
    { <<97, 32, 49>>,
      <<98, 32, 49>>,
      <<97, 59, 98, 32, 50, 32, 49>> }

\* The texts of one reader: up to MaxLines lines, with or without a line
\* feed after the last.
FilesTexts ==
    {TextOf(ls, ended) : ls \in SeqsUpTo(FilesCorpus, MaxLines), ended \in BOOLEAN}

FilesOptions == {o \in ReadersOptions : o.frame_width_source = "After"}

\* A call of from_readers with two readers.
InitFiles ==
    /\ readers \in {<<s, t>> : s \in FilesTexts, t \in FilesTexts}
    /\ opt \in FilesOptions
    /\ lines = <<>>
    /\ pc = "readers"
    /\ handed = <<>>
    /\ frames = <<>>
    /\ total = <<>>
    /\ delta_max = <<>>
    /\ ignored = 0
    /\ depthmax = 0
    /\ log = <<>>
    /\ sink = <<>>
    /\ result = "Running"

SpecFiles == InitFiles /\ [][NextReaders]_vars

\* The lines of all the readers, one reader after the other.
RECURSIVE LinesOfAll(_)
LinesOfAll(rs) == IF rs = <<>> THEN <<>> ELSE StrLines(rs[1]) \o LinesOfAll(Tail(rs))

\* The one reader that holds the lines of all the readers.
OneReader == TextOf(LinesOfAll(readers), TRUE)

Several == Len(readers) > 1

\* C22 as stated: from_readers makes of several readers what it makes of
\* one reader that holds the lines of all of them, whether or not the text
\* of a reader ends with a line feed: the same count type and the same
\* lines, hence in default mode the same rectangles.
C22_AsStated ==
    (Several /\ pc # "readers") =>
        /\ opt.is_diff = IsDiffCase(OneReader)
        /\ lines = StrLines(OneReader)
        /\ (Finished /\ DefaultMode) => Rects = RectsFor(opt, StrLines(OneReader))

\* Two readers, the first without a line feed after its last line: its
\* last line and the first line of the second reader were read as one
\* line, and the frames drawn are not those of the lines of both.
C22_Witness ==
    /\ Several
    /\ Finished
    /\ DefaultMode
    /\ Len(LinesOfAll(readers)) = 2
    /\ Len(lines) = 1
    /\ lines[1] = LinesOfAll(readers)[1] \o LinesOfAll(readers)[2]
    /\ Rects # RectsFor(opt, LinesOfAll(readers))

\* C23 as stated: with more than one reader the lines of all of them are
\* sorted before they are merged, also when no_sort is set: the merger is
\* handed the sorted lines and does not fail as unsorted.
C23_AsStated ==
    (Several /\ opt.no_sort /\ pc \notin {"readers", "start"}) =>
        /\ handed = SortLines(Tidied)
        /\ result # "ErrUnsorted"

\* Two readers, each ending with a line feed, whose lines are out of order
\* when put together: with no_sort set the merger was handed them as they
\* were and the call failed as unsorted, nothing written.
C23_Witness ==
    /\ Several
    /\ opt.no_sort
    /\ pc = "done"
    /\ result = "ErrUnsorted"
    /\ sink = <<>>
    /\ lines = LinesOfAll(readers)
    /\ Len(StrLines(readers[1])) = 1
    /\ Len(StrLines(readers[2])) = 1
    /\ handed = lines
    /\ ~IsSortedLines(handed)


(***************************************************************************)
(* Rendering the same input twice: the colours of the two documents.      *)
(***************************************************************************)

\* "a 1", "a;b 1", "- 1", "a 2 1"
ColourCorpus ==
    { <<97, 32, 49>>,
      <<97, 59, 98, 32, 49>>,
      <<45, 32, 49>>,
      <<97, 32, 50, 32, 49>> }

ColourOptions ==
    [reverse_stack_order : {FALSE}, flame_chart : {FALSE}, no_sort : {FALSE},
     is_diff : BOOLEAN, frame_width_source : {"After"},
     min_width : {1}, base : {{}},
     negate_differentials : {FALSE}, normalize : {FALSE},
     include_children : {FALSE}, detailed_tooltips : {FALSE},
     hash : BOOLEAN, deterministic : BOOLEAN]

\* Already-sorted input under any of the options, the default ones among
\* them.
InitColour ==
    /\ readers = <<>>
    /\ opt \in ColourOptions
    /\ lines \in {ls \in SeqsUpTo(ColourCorpus, MaxLines) : IsSortedLines(ls)}
    /\ pc = "start"
    /\ handed = <<>>
    /\ frames = <<>>
    /\ total = <<>>
    /\ delta_max = <<>>
    /\ ignored = 0
    /\ depthmax = 0
    /\ log = <<>>
    /\ sink = <<>>
    /\ result = "Running"

\* The documents written so far.
Renders == Cardinality({k \in 1..Len(sink) : sink[k].tag = "prelude"})

\* from_lines called once more with the same options, the same lines and
\* a writer that follows the first document: thread_rng is taken anew.
FromLinesAgain ==
    /\ pc = "done"
    /\ result = "Ok"
    /\ Renders = 1
    /\ pc' = "start"
    /\ handed' = <<>>
    /\ frames' = <<>>
    /\ total' = <<>>
    /\ delta_max' = <<>>
    /\ ignored' = 0
    /\ depthmax' = 0
    /\ result' = "Running"
    /\ UNCHANGED <<readers, opt, lines, log, sink>>

NextColour ==
    \/ DefaultBranch
    \/ ReportIgnored
    \/ NoStackCounts
    \/ Prune
    \/ DrawFrames
    \/ FromLinesAgain

SpecColour == InitColour /\ [][NextColour]_vars

RenderedTwice == Finished /\ Renders = 2

FirstRender == SubSeq(sink, 1, Len(sink) \div 2)

SecondRender == SubSeq(sink, Len(sink) \div 2 + 1, Len(sink))

C24_RandomColours ==
    /\ RenderedTwice
    /\ ~opt.hash /\ ~opt.deterministic /\ ~opt.is_diff
    /\ Len(FirstRender) = Len(SecondRender)
    /\ \E k \in 1..Len(FirstRender) :
         /\ FirstRender[k].tag = "rect"
         /\ FirstRender[k].colour # SecondRender[k].colour
         /\ [FirstRender[k] EXCEPT !.colour = SecondRender[k].colour] = SecondRender[k]


(***************************************************************************)
(* Options::ypad1 and Options::ypad2: the paddings above and below the    *)
(* frames.                                                                 *)
(***************************************************************************)

\* usize is kept at UsizeBits bits, so that the largest font sizes overflow
\* as they do at 64 bits.
UsizeBits == 6

UsizeModulus == 2 ^ UsizeBits

FontSizes == 0..(UsizeModulus - 1)

Directions == {"Straight", "Inverted"}

PadOptions == [font_size : FontSizes, subtitle : BOOLEAN, direction : Directions]

\* let subtitle_height = if self.subtitle.is_some() { self.font_size * 2 } else { 0 }
SubtitleHeight(o) == IF o.subtitle THEN o.font_size * 2 ELSE 0

\* ypad1 as if the direction were always Straight.
Ypad1Straight(o) == o.font_size * 3 + SubtitleHeight(o)

\* Options::ypad1 over the integers.
Ypad1(o) ==
    IF o.direction = "Straight" THEN o.font_size * 3 + SubtitleHeight(o)
    ELSE o.font_size * 4 + SubtitleHeight(o) + 4

\* Options::ypad2 over the integers.
Ypad2(o) ==
    IF o.direction = "Straight" THEN o.font_size * 2 + 10
    ELSE o.font_size + 10

\* What a usize computation yields: the value when it fits; beyond usize a
\* panic with overflow checks on, the wrapped value with them off.
UsizeOutcomes(x) ==
    IF x < UsizeModulus THEN {[panicked |-> FALSE, value |-> x]}
    ELSE {[panicked |-> TRUE, value |-> 0],
          [panicked |-> FALSE, value |-> x % UsizeModulus]}

InitPad ==
    /\ readers = <<>>
    /\ opt \in PadOptions
    /\ lines = <<>>
    /\ pc = "start"
    /\ handed = <<>>
    /\ frames = <<>>
    /\ total = <<>>
    /\ delta_max = <<>>
    /\ ignored = 0
    /\ depthmax = 0
    /\ log = <<>>
    /\ sink = <<>>
    /\ result = "Running"

\* opt.ypad1()
CallYpad1 ==
    /\ pc = "start"
    /\ \E y \in UsizeOutcomes(Ypad1(opt)) : sink' = <<y>>
    /\ pc' = "ypad1"
    /\ UNCHANGED <<readers, opt, lines, handed, frames, total, delta_max, ignored, depthmax, log, result>>

\* opt.ypad2()
CallYpad2 ==
    /\ pc = "ypad1"
    /\ \E y \in UsizeOutcomes(Ypad2(opt)) : sink' = Append(sink, y)
    /\ pc' = "done"
    /\ UNCHANGED <<readers, opt, lines, handed, frames, total, delta_max, ignored, depthmax, log, result>>

NextPad == CallYpad1 \/ CallYpad2

SpecPad == InitPad /\ [][NextPad]_vars

\* The paddings returned for the options o, with overflow checks off.
Pad1Of(o) == Ypad1(o) % UsizeModulus

Pad2Of(o) == Ypad2(o) % UsizeModulus

WithSubtitle(o, s) == [o EXCEPT !.subtitle = s]

WithDirection(o, d) == [o EXCEPT !.direction = d]

\* The relations of the claim between the paddings of the options at hand
\* and those of the options that differ in the subtitle or the direction.
PadRelations ==
    /\ opt.subtitle => sink[1].value > Pad1Of(WithSubtitle(opt, FALSE))
    /\ opt.direction = "Inverted" =>
         /\ sink[1].value > Pad1Of(WithDirection(opt, "Straight"))
         /\ sink[2].value < Pad2Of(WithDirection(opt, "Straight"))

PadsReturned == pc = "done" /\ ~sink[1].panicked /\ ~sink[2].panicked

\* No padding of the font size, with or without a subtitle, in either
\* direction, goes beyond usize.
PadsFit == opt.font_size * 4 + opt.font_size * 2 + 4 < UsizeModulus

\* C25 as stated: for every font_size a subtitle makes ypad1 strictly
\* larger in either direction, and Inverted makes ypad1 strictly larger and
\* ypad2 strictly smaller than Straight, with or without a subtitle.
C25_AsStated == PadsReturned => PadRelations

\* C25: for every font_size of at least 1 whose paddings fit in usize, a
\* subtitle makes ypad1 strictly larger in either direction, and Inverted
\* makes ypad1 strictly larger and ypad2 strictly smaller than Straight,
\* with or without a subtitle.
C25_Paddings ==
    (PadsReturned /\ opt.font_size >= 1 /\ PadsFit) => PadRelations

\* The paddings of an inverted graph with a subtitle at font size 2.
C25_Witness ==
    /\ PadsReturned
    /\ opt.font_size = 2
    /\ opt.subtitle
    /\ opt.direction = "Inverted"
    /\ sink[1].value = 16
    /\ sink[2].value = 12
    /\ Pad1Of(WithSubtitle(opt, FALSE)) = 12
    /\ Pad1Of(WithDirection(opt, "Straight")) = 10
    /\ Pad2Of(WithDirection(opt, "Straight")) = 14

\* Font size 0: the subtitle adds nothing to ypad1, and ypad2 is 10 in both
\* directions.
C25_ZeroFont ==
    /\ PadsReturned
    /\ opt.font_size = 0
    /\ opt.subtitle
    /\ opt.direction = "Inverted"
    /\ sink[1].value = Pad1Of(WithSubtitle(opt, FALSE))
    /\ sink[2].value = Pad2Of(WithDirection(opt, "Straight"))


(***************************************************************************)
(* The label of a rectangle: deannotate and the fit to fitchars.           *)
(* Names are sequences of characters here; a character below 128 takes one *)
(* byte, any other one (233 is e with an acute accent) two.                *)
(***************************************************************************)

MaxName == 4

MaxFit == 6

TextAlphabet == {97, 98, 233}

\* "ab_[k]", "abcd_[j]", "a_[x]", "_[w]"
AnnotatedNames ==
    { <<97, 98, 95, 91, 107, 93>>,
      <<97, 98, 99, 100, 95, 91, 106, 93>>,
      <<97, 95, 91, 120, 93>>,
      <<95, 91, 119, 93>> }

TextNames == (SeqsUpTo(TextAlphabet, MaxName) \ {<<>>}) \cup AnnotatedNames

TruncateDirections == {"Left", "Right"}

TextOptions == [text_truncate_direction : TruncateDirections]

\* str::len: the length in bytes.
RECURSIVE ByteLen(_)
ByteLen(f) ==
    IF f = <<>> THEN 0
    ELSE (IF Head(f) < 128 THEN 1 ELSE 2) + ByteLen(Tail(f))

\* f.rfind("_["): the characters before the last "_[", -1 when there is none.
RfindAnnotation(f) ==
    IF \E i \in 1..(Len(f) - 1) : f[i] = 95 /\ f[i + 1] = 91
    THEN (CHOOSE i \in 1..(Len(f) - 1) :
             /\ f[i] = 95 /\ f[i + 1] = 91
             /\ \A j \in (i + 1)..(Len(f) - 1) : ~(f[j] = 95 /\ f[j + 1] = 91)) - 1
    ELSE -1

\* f[ai..].len() == 4 && "kwij".contains(&f[ai + 2..ai + 3])
IsAnnotationAt(f, ai) ==
    /\ ai >= 0
    /\ ByteLen(SubSeq(f, ai + 1, Len(f))) = 4
    /\ f[ai + 3] \in {107, 119, 105, 106}

\* fn deannotate(f: &str) -> &str
Deannotate(f) ==
    IF f # <<>> /\ f[Len(f)] = 93 /\ IsAnnotationAt(f, RfindAnnotation(f))
    THEN SubSeq(f, 1, RfindAnnotation(f))
    ELSE f

DOTS == <<46, 46>>

\* f.chars().take(n)
TakeChars(f, n) == SubSeq(f, 1, Min(n, Len(f)))

\* if f.len() < fitchars { f } else { take(fitchars - 2) then ".." }
FitName(f, fitchars) ==
    IF ByteLen(f) < fitchars THEN f
    ELSE TakeChars(f, fitchars - 2) \o DOTS

\* let text = if fitchars >= 3 { ... } else { "" }
Label(o, function, fitchars) ==
    IF fitchars >= 3 THEN FitName(Deannotate(function), fitchars)
    ELSE <<>>

\* One frame of the given name whose rectangle fits fitchars characters.
InitText ==
    /\ readers = <<>>
    /\ opt \in TextOptions
    /\ lines = <<>>
    /\ pc = "draw"
    /\ handed = <<>>
    /\ frames \in {<<[function |-> f, fitchars |-> n]>> : f \in TextNames, n \in 0..MaxFit}
    /\ total = <<>>
    /\ delta_max = <<>>
    /\ ignored = 0
    /\ depthmax = 0
    /\ log = <<>>
    /\ sink = <<>>
    /\ result = "Running"

\* svg::write_str(.., TextItem { text, .. }) of the frame loop
WriteText ==
    /\ pc = "draw"
    /\ sink' = Append(sink, [tag |-> "text",
                             text |-> Label(opt, frames[1].function, frames[1].fitchars)])
    /\ pc' = "done"
    /\ UNCHANGED <<readers, opt, lines, handed, frames, total, delta_max, ignored, depthmax, log, result>>

NextText == WriteText

SpecText == InitText /\ [][NextText]_vars

TextWritten == pc = "done" /\ Len(sink) = 1 /\ sink[1].tag = "text"

\* The deannotated name of the frame, the number of characters that fit
\* and the label written.
ShownName == Deannotate(frames[1].function)

Fit == frames[1].fitchars

WrittenLabel == sink[1].text

\* C26 as stated: no label when fewer than 3 characters fit; otherwise the
\* deannotated name in full when it is at most as long as the fit, and
\* only when it is longer the fit less two of its characters and "..", a
\* label never longer than the fit.
C26_AsStated ==
    TextWritten =>
        /\ Fit < 3 => WrittenLabel = <<>>
        /\ (Fit >= 3 /\ Len(ShownName) <= Fit) => WrittenLabel = ShownName
        /\ (Fit >= 3 /\ Len(ShownName) > Fit) =>
             /\ WrittenLabel = SubSeq(ShownName, 1, Fit - 2) \o DOTS
             /\ Len(WrittenLabel) <= Fit

\* A name of exactly as many characters as fit, written with its last two
\* characters replaced by "..".
C26_Witness ==
    /\ TextWritten
    /\ Fit = 4
    /\ frames[1].function = <<97, 98, 97, 98>>
    /\ WrittenLabel = <<97, 98, 46, 46>>


Truncated == TextWritten /\ Fit >= 3 /\ WrittenLabel # ShownName

\* The characters of the name that the truncated label kept: the label
\* without its "..".
KeptChars ==
    IF SubSeq(WrittenLabel, Len(WrittenLabel) - 1, Len(WrittenLabel)) = DOTS
    THEN SubSeq(WrittenLabel, 1, Len(WrittenLabel) - 2)
    ELSE SubSeq(WrittenLabel, 3, Len(WrittenLabel))

LeftMost(f, n) == SubSeq(f, 1, n)

RightMost(f, n) == SubSeq(f, Len(f) - n + 1, Len(f))

\* C27 as stated: of a truncated label the side cut follows
\* text_truncate_direction: with Left the right-most characters of the name
\* are kept, with Right the left-most ones.
C27_AsStated ==
    (Truncated /\ Len(KeptChars) <= Len(ShownName)) =>
        /\ opt.text_truncate_direction = "Left" =>
             KeptChars = RightMost(ShownName, Len(KeptChars))
        /\ opt.text_truncate_direction = "Right" =>
             KeptChars = LeftMost(ShownName, Len(KeptChars))

\* With Left the name "abbb" cut to four characters is "ab..": its
\* left-most characters were kept and its right part was cut off.
C27_Witness ==
    /\ Truncated
    /\ opt.text_truncate_direction = "Left"
    /\ frames[1].function = <<97, 98, 98, 98>>
    /\ Fit = 4
    /\ WrittenLabel = <<97, 98, 46, 46>>
    /\ KeptChars = LeftMost(ShownName, 2)
    /\ KeptChars # RightMost(ShownName, 2)


(***************************************************************************)
(* The default branch over frame names with characters below ';'.          *)
(***************************************************************************)

MaxSortLines == 3

\* "a 1", "a.x 1", "a;b 1", "b 1"
SortCorpus ==
    { <<97, 32, 49>>,
      <<97, 46, 120, 32, 49>>,
      <<97, 59, 98, 32, 49>>,
      <<98, 32, 49>> }

SortOptions == {o \in BranchOptions : ~o.reverse_stack_order /\ ~o.flame_chart /\ ~o.no_sort}

InitSorted ==
    /\ readers = <<>>
    /\ opt \in SortOptions
    /\ lines \in SeqsUpTo(SortCorpus, MaxSortLines)
    /\ pc = "start"
    /\ handed = <<>>
    /\ frames = <<>>
    /\ total = <<>>
    /\ delta_max = <<>>
    /\ ignored = 0
    /\ depthmax = 0
    /\ log = <<>>
    /\ sink = <<>>
    /\ result = "Running"

NextSorted ==
    \/ DefaultBranch
    \/ ReportIgnored
    \/ NoStackCounts
    \/ Prune
    \/ DrawFrames

SpecSorted == InitSorted /\ [][NextSorted]_vars

\* No two timed frames have the same depth, name and ancestor chain.
OneFramePerPath ==
    \A i, j \in 1..Len(frames) :
        i # j => PathOf(frames[i]) # PathOf(frames[j])

\* C28 as stated: in default sorted mode no two timed frames the merger
\* emitted have the same depth, function name and ancestor chain, whatever
\* the frame names are.
C28_AsStated == (DefaultMode /\ Emitted) => OneFramePerPath

\* The sorted lines "a 1", "a.x 1", "a;b 1": the frame a was closed when
\* a.x came and opened again for a;b, so two timed frames have the path a.
C28_Witness ==
    /\ DefaultMode
    /\ Emitted
    /\ handed = << <<97, 32, 49>>, <<97, 46, 120, 32, 49>>, <<97, 59, 98, 32, 49>> >>
    /\ IsSortedLines(handed)
    /\ \E i, j \in 1..Len(frames) :
         /\ i # j
         /\ frames[i].function = <<97>>
         /\ frames[j].function = <<97>>
         /\ frames[i].depth = frames[j].depth
         /\ PathOf(frames[i]) = PathOf(frames[j])
         /\ frames[i].end_time <= frames[j].start_time


(***************************************************************************)
(* Pruning under every frame-width source.                                 *)
(***************************************************************************)

\* min_width in hundredths of a percent: the default 0.01, 40 and a value
\* above 100.
PruneMinWidths == {1, 4000, 10001}

PruneOptions ==
    { o \in [reverse_stack_order : {FALSE}, flame_chart : {FALSE}, no_sort : {FALSE},
             is_diff : BOOLEAN, frame_width_source : WidthSources,
             min_width : PruneMinWidths, base : {{}},
             negate_differentials : {FALSE}, normalize : {FALSE},
             include_children : {FALSE}, detailed_tooltips : {FALSE},
             hash : {TRUE}, deterministic : {FALSE}] :
        o.is_diff \/ o.frame_width_source = "After" }

InitPrune ==
    /\ readers = <<>>
    /\ opt \in PruneOptions
    /\ lines \in SeqsUpTo(Corpus, MaxLines)
    /\ pc = "start"
    /\ handed = <<>>
    /\ frames = <<>>
    /\ total = <<>>
    /\ delta_max = <<>>
    /\ ignored = 0
    /\ depthmax = 0
    /\ log = <<>>
    /\ sink = <<>>
    /\ result = "Running"

NextPrune ==
    \/ DefaultBranch
    \/ ReportIgnored
    \/ NoStackCounts
    \/ Prune
    \/ DrawFrames

SpecPrune == InitPrune /\ [][NextPrune]_vars

\* The frame of the given id among the frames fs.
FrameIn(fs, id) == CHOOSE f \in {fs[i] : i \in 1..Len(fs)} : f.id = id

\* Among the frames fs, the frame g lies below the frame whose id is fid.
RECURSIVE UnderIn(_, _, _)
UnderIn(fs, g, fid) ==
    /\ g.parent # 0
    /\ (g.parent = fid \/ UnderIn(fs, FrameIn(fs, g.parent), fid))

Survives(f) == \E i \in 1..Len(frames) : frames[i].id = f.id

\* Every ancestor among the emitted frames E of a surviving frame contains
\* its range and survives as well.
AncestorClosedIn(E) ==
    \A i \in 1..Len(E), j \in 1..Len(E) :
        (Survives(E[i]) /\ UnderIn(E, E[i], E[j].id)) =>
            /\ E[j].start_time <= E[i].start_time
            /\ E[i].end_time <= E[j].end_time
            /\ Survives(E[j])

AncestorClosed == AncestorClosedIn(EmittedFrames)

EveryDepthDrawn == \A d \in 0..depthmax : \E r \in Rects : r.depth = d

\* C29 as stated: under every frame-width source the ancestors of a
\* surviving frame survive the min_width filter, and every depth from 0 to
\* depthmax holds at least one rectangle.
C29_AsStated == Finished => (AncestorClosed /\ EveryDepthDrawn)

\* C29: under every frame-width source the ancestors of a surviving frame
\* survive the min_width filter, and when any frame survives, every depth
\* from 0 to depthmax holds at least one rectangle.
C29_AncestorClosed ==
    Finished => (AncestorClosed /\ (frames # <<>> => EveryDepthDrawn))

\* Of the emitted frames E one at depth 2 was pruned and another survived
\* with its parent.
PrunedAndKept(E) ==
    /\ \E i \in 1..Len(E) : E[i].depth = 2 /\ ~Survives(E[i])
    /\ \E i \in 1..Len(E), j \in 1..Len(E) :
         /\ E[i].depth = 2
         /\ Survives(E[i])
         /\ E[j].depth = 1
         /\ UnderIn(E, E[i], E[j].id)
         /\ Survives(E[j])

\* Differential counts laid out by Difference at min_width 40: the frame b
\* of a;b was pruned, the frame c of a;c survived with its ancestors.
C29_Witness ==
    /\ Finished
    /\ opt.is_diff
    /\ opt.frame_width_source = "Difference"
    /\ opt.min_width = 4000
    /\ depthmax = 2
    /\ PrunedAndKept(EmittedFrames)

\* min_width above 100: every frame was pruned, the root among them, and no
\* rectangle stands at depth 0 = depthmax.
C29_AllPruned ==
    /\ Finished
    /\ opt.min_width = 10001
    /\ handed # <<>>
    /\ total # <<>>
    /\ frames = <<>>
    /\ depthmax = 0
    /\ Rects = {}


(***************************************************************************)
(* The base symbols under reverse_stack_order, flame_chart and no_sort.    *)
(***************************************************************************)

BaseAnyOptions ==
    [reverse_stack_order : BOOLEAN, flame_chart : BOOLEAN, no_sort : BOOLEAN,
     is_diff : {FALSE}, frame_width_source : {"After"},
     min_width : {1}, base : BaseSets \cup {{}},
     negate_differentials : {FALSE}, normalize : {FALSE},
     include_children : {FALSE}, detailed_tooltips : {FALSE},
     hash : {TRUE}, deterministic : {FALSE}]

InitBaseAny ==
    /\ readers = <<>>
    /\ opt \in BaseAnyOptions
    /\ lines \in SeqsUpTo(BaseCorpus, MaxLines)
    /\ pc = "start"
    /\ handed = <<>>
    /\ frames = <<>>
    /\ total = <<>>
    /\ delta_max = <<>>
    /\ ignored = 0
    /\ depthmax = 0
    /\ log = <<>>
    /\ sink = <<>>
    /\ result = "Running"

SpecBaseAny == InitBaseAny /\ [][Next]_vars

\* Each tidied line with its stack reversed, in the order of the input.
ReversedTidied == ReverseLines(Tidied)

\* C30: with reverse_stack_order, flame_chart or no_sort set, a non-empty
\* base set leaves the lines handed to the merger as they are with an
\* empty one: every tidied line is handed on whole, reversed and sorted
\* under reverse_stack_order, in reverse order under flame_chart, as it
\* came under no_sort.
C30_BaseIgnored ==
    (opt.base # {} /\ ~DefaultMode /\ pc # "start") =>
        /\ Len(handed) = Len(Tidied)
        /\ opt.reverse_stack_order => handed = SortLines(ReversedTidied)
        /\ (~opt.reverse_stack_order /\ opt.flame_chart) => handed = Rev(Tidied)
        /\ (~opt.reverse_stack_order /\ ~opt.flame_chart) => handed = Tidied

\* no_sort with the base {"a"} and the lines "b 1", "b;a;b 1": the default
\* branch would have dropped the first and cut the second, and both were
\* handed to the merger whole and drawn.
C30_Witness ==
    /\ NoSortMode
    /\ opt.base = {<<97>>}
    /\ Finished
    /\ lines = << <<98, 32, 49>>, <<98, 59, 97, 59, 98, 32, 49>> >>
    /\ handed = lines
    /\ BaseFilter(Tidied, opt.base) = << <<97, 59, 98, 32, 49>> >>
    /\ \E r \in Rects : r.depth = 3

=============================================================================
